---- MODULE Spec2Model ----
(***************************************************************************)
(* Model of the request-path infrastructure of pkg/yfinance:               *)
(*   - RateLimiter (retry.go:171-213), a token bucket with no lock,        *)
(*   - Client.doWithRetry (retry.go:63-146), the bounded retry loop,       *)
(*   - calculateBackoff (retry.go:123-136) as a function of its arguments, *)
(*   - Client.Get and Client.Post (client.go:72-281), the request path,    *)
(*   - the option pricing of greeks.go: CalculateGreeks, blackScholesPrice,*)
(*     OptionChain.WithGreeks and ImpliedVolatility,                       *)
(*   - the Cache of cache.go, Download of download.go and the WebSocket    *)
(*     Stream of modules.go.                                               *)
(*                                                                         *)
(* Time is counted in timer ticks.  A token is TokenUnit token units, so   *)
(* the float64 token count is an integer number of units; the refill rate  *)
(* is in units per tick.  Durations of the retry loop are in milliseconds. *)
(* A float64 of the pricing code is a fixed-point number, NaN or +-Inf.    *)
(***************************************************************************)
EXTENDS Integers, Sequences, FiniteSets, TLC

\* ---------------------------------------------------------------- bounds
TokenUnit == 2      \* token units per token (resolution of the token count)
MaxBurst == 2       \* NewRateLimiter's burst is drawn from 0..MaxBurst
MaxRate == 3        \* requestsPerSecond is drawn from 1..MaxRate (units/tick)
MaxTime == 5        \* the clock stops at MaxTime
MaxSucc == 4        \* no new Wait call once MaxSucc calls have succeeded
SharedRate == 1     \* refill rate of the limiter that goroutines share
SharedBurst == 1    \* burst of the limiter that goroutines share
MaxMaxRetries == 2      \* RetryConfig.MaxRetries is drawn from -1..MaxMaxRetries
MaxInitialBackoff == 2  \* InitialBackoff from 1..MaxInitialBackoff (ms)
MaxMaxBackoff == 3      \* MaxBackoff from 1..MaxMaxBackoff (ms)
FactorDen == 2          \* BackoffFactor is FactorNum / FactorDen,
MaxFactorNum == 4       \*   FactorNum from 1..MaxFactorNum
JitterDen == 2          \* Jitter is JitterNum / JitterDen,
MaxJitterNum == 1       \*   JitterNum from 0..MaxJitterNum
MaxCalls == 3           \* Get/Post calls started on the one Client
MaxContracts == 2       \* an OptionChain has 0..MaxContracts calls, and puts
MaxBase == 5            \* calculateBackoff's base is drawn from 0..MaxBase

Procs == {1, 2}     \* goroutines that may call Wait on the one limiter

VARIABLES
    now,            \* time.Now(), in ticks
    tokens,         \* rl.tokens, in token units
    maxTokens,      \* rl.maxTokens, in token units
    refillRate,     \* rl.refillRate, in token units per tick
    lastRefillTime, \* rl.lastRefillTime
    pc,             \* pc[g]: where goroutine g is inside Wait
    tnow,           \* tnow[g]: refill's local `now`
    elapsed,        \* elapsed[g]: refill's local `elapsed`, in ticks
    reg,            \* reg[g]: the value of rl.tokens g has loaded
    wake,           \* wake[g]: when g's time.After(waitTime) fires
    ctxDone,        \* ctxDone[g]: the ctx of g's call is cancelled
    ret,            \* ret[g]: what g's last Wait returned
    succ,           \* number of Wait calls that returned nil
    config,         \* doWithRetry: the RetryConfig in force
    rpc,            \* doWithRetry: where the call is
    attempt,        \* doWithRetry: the loop variable
    backoff,        \* doWithRetry: the local `backoff`, in ms
    lastErr,        \* doWithRetry: the local `lastErr`
    resp,           \* doWithRetry: the response of the latest attempt
    waitTime,       \* doWithRetry: the local `waitTime`, in ms
    rctxDone,       \* doWithRetry: the ctx of the call is cancelled
    result,         \* doWithRetry: the (response, error) returned
    inflight,       \* requests handed to httpClient.Do and not yet answered
    outs,           \* what each attempt so far produced
    nwaits,         \* the number of waits completed between attempts
    cbArgs,         \* calculateBackoff: the arguments of the call
    cbRet,          \* calculateBackoff: <<>>, or <<d>> once d is returned
    crumb,          \* Client.crumb ("" when not authenticated)
    cpc,            \* cpc[g]: where goroutine g is inside Get or Post
    method,         \* method[g]: "GET" or "POST", the call g is in
    reqCrumb,       \* reqCrumb[g]: the crumb parameter of g's request
    cres,           \* cres[g]: what g's last Get or Post returned
    sent,           \* data requests handed to httpClient.Do by Get and Post
    calls,          \* Get and Post calls started
    gArgs,          \* the arguments S, K, r, T, sigma, isCall of a pricing call
    gFn,            \* the pricing function that has returned, or "none"
    gGreeks,        \* what CalculateGreeks returned: <<>> (nil) or <<g>>
    gPrice,         \* what blackScholesPrice returned
    o,              \* WithGreeks: the receiver, an OptionChain
    riskFreeRate,   \* WithGreeks: its argument
    wallClock,      \* the wall clock, in Unix seconds
    wpc,            \* WithGreeks: where the call is
    wi,             \* WithGreeks: the index of the range loop
    optT,           \* CalculateOptionGreeks: the local T of the latest call
    wresult,        \* WithGreeks: the local `result`
    ivArgs,         \* ImpliedVolatility: marketPrice, S, K, r, T, isCall
    ivSigma,        \* ImpliedVolatility: the local `sigma`
    iter,           \* ImpliedVolatility: the loop variable i
    evals,          \* ImpliedVolatility: evaluations of the pricer so far
    ivpc,           \* ImpliedVolatility: where the call is
    ivRet,          \* ImpliedVolatility: the value returned
    cache,          \* the Cache: its config, memory map and enabled flag
    files,          \* the disk cache: key |-> ExpiresAt of the file key.json
    cnow,           \* time.Now() as the cache reads it
    cobs,           \* what the cache's caller has seen: the expiry its last
                    \* Set of each key asked for, and its last Get
    dl,             \* Download: its params, locals, goroutines and result
    stream          \* the Stream, its channels, connections and read loops

limVars == <<now, tokens, maxTokens, refillRate, lastRefillTime, pc, tnow,
             elapsed, reg, wake, ctxDone, ret, succ>>

retryVars == <<config, rpc, attempt, backoff, lastErr, resp, waitTime,
               rctxDone, result, inflight, outs, nwaits>>

cbVars == <<cbArgs, cbRet>>

clientVars == <<crumb, cpc, method, reqCrumb, cres, sent, calls>>

fnVars == <<gArgs, gFn, gGreeks, gPrice>>

chainVars == <<o, riskFreeRate, wallClock, wpc, wi, optT, wresult>>

ivVars == <<ivArgs, ivSigma, iter, evals, ivpc, ivRet>>

\* the pricing code, which shares no state with the request path
pricingVars == <<fnVars, chainVars, ivVars>>

cacheVars == <<cache, files, cnow, cobs>>

\* the services, which share no state with either, nor with each other
svcVars == <<cacheVars, dl, stream>>

vars == <<limVars, retryVars, cbVars, clientVars, pricingVars, svcVars>>

\* what the cache does not touch
notCacheVars ==
    <<limVars, retryVars, cbVars, clientVars, pricingVars, dl, stream>>

\* what the rate limiter does not touch
otherVars == <<retryVars, cbVars, clientVars, pricingVars, svcVars>>

\* what doWithRetry does not touch
notRetryVars == <<limVars, cbVars, clientVars, pricingVars, svcVars>>

\* what Get and Post do not touch: they never use c.rateLimiter or
\* c.retryConfig
notClientVars == <<limVars, retryVars, cbVars, pricingVars, svcVars>>

\* The zero OptionChain and the zero OptionChainWithGreeks.
NoChain ==
    [Symbol |-> "", UnderlyingPrice |-> 0, ExpirationDates |-> <<>>,
     Strikes |-> <<>>, Calls |-> <<>>, Puts |-> <<>>]

\* No pricing function is under study.
PricingIdle ==
    /\ gArgs = [S |-> 0, K |-> 0, r |-> 0, T |-> 0, sigma |-> 0,
                isCall |-> FALSE]
    /\ gFn = "none"
    /\ gGreeks = <<>>
    /\ gPrice = 0
    /\ o = NoChain
    /\ riskFreeRate = 0
    /\ wallClock = 0
    /\ wpc = "idle"
    /\ wi = 0
    /\ optT = 0
    /\ wresult = NoChain
    /\ ivArgs = [marketPrice |-> 0, S |-> 0, K |-> 0, r |-> 0, T |-> 0,
                 isCall |-> FALSE]
    /\ ivSigma = 0
    /\ iter = 0
    /\ evals = 0
    /\ ivpc = "idle"
    /\ ivRet = 0

\* The keys a caller of the cache uses.  Set, Get and Delete take any
\* string, the empty one included.
Keys == {"", "a"}

\* A map[string]*cacheEntry with no entry, and a cache directory with no
\* file.  An entry is its ExpiresAt; the Data bytes are carried unchanged.
NoEntries == [k \in {} |-> 0]

\* No Cache is under study.
CacheIdle ==
    /\ cache = [Type |-> "none", DefaultTTL |-> 0, MaxSize |-> 0,
                memory |-> NoEntries, enabled |-> FALSE]
    /\ files = NoEntries
    /\ cnow = 0
    /\ cobs = [asked |-> NoEntries, got |-> <<>>]

\* A Download(ctx, params) that has not been called: no goroutine, an empty
\* semaphore and WaitGroup, and no result.
NoDownload(threads, n) ==
    [Threads |-> threads, Symbols |-> n, mpc |-> "idle", gpc |-> <<>>,
     sem |-> 0, wg |-> 0, Data |-> {}, Errors |-> {}, ret |-> "none"]

\* No Download is under study.
DownloadIdle == dl = NoDownload(0, 0)

\* NewStream(symbols): no connection, three open channels with nothing in
\* them, and no read loop.  done, mcloses and ecloses count the close calls
\* on s.done, s.messages and s.errors; conns[c] is whether connection c is
\* open, and conn the index of s.conn (0 for nil).
NewStream(hasSymbols) ==
    [hasSymbols |-> hasSymbols, running |-> FALSE, conn |-> 0,
     conns |-> <<>>, done |-> 0, mlen |-> 0, mcloses |-> 0, elen |-> 0,
     ecloses |-> 0, loops |-> <<>>, panic |-> FALSE]

\* No Stream is under study.
StreamIdle == stream = NewStream(FALSE)

\* None of the services is under study.
SvcIdle == CacheIdle /\ DownloadIdle /\ StreamIdle

\* A Client on which nothing has been called.
ClientIdle ==
    /\ crumb = ""
    /\ cpc = [g \in Procs |-> "idle"]
    /\ method = [g \in Procs |-> "none"]
    /\ reqCrumb = [g \in Procs |-> ""]
    /\ cres = [g \in Procs |-> "none"]
    /\ sent = 0
    /\ calls = 0

\* No calculateBackoff call is under study.
BackoffIdle ==
    /\ cbArgs = [base |-> 0, max |-> 0, jitterNum |-> 0]
    /\ cbRet = <<>>

\* The RetryConfig of a run that makes no request.
NoConfig ==
    [MaxRetries |-> 0, InitialBackoff |-> 0, MaxBackoff |-> 0, FactorNum |-> 0,
     JitterNum |-> 0, RetryOnStatus |-> {}]

\* ------------------------------------------------------------- arithmetic
Min(a, b) == IF a <= b THEN a ELSE b

\* Go's float-to-Duration conversion truncates toward zero.
Trunc(a, b) == IF a >= 0 THEN a \div b ELSE -((-a) \div b)

\* ceil(TokenUnit / rate): the longest one Wait can need from an empty bucket
Horizon(rate) == (TokenUnit + rate - 1) \div rate

\* ------------------------------------------------------------ RateLimiter
\* NewRateLimiter(requestsPerSecond, burst) at time 0.
NewRateLimiter(rate, burst) ==
    /\ tokens = burst * TokenUnit
    /\ maxTokens = burst * TokenUnit
    /\ refillRate = rate
    /\ lastRefillTime = now

InitLimiter ==
    /\ now = 0
    /\ \E rate \in 1..MaxRate, burst \in 0..MaxBurst : NewRateLimiter(rate, burst)
    /\ pc = [g \in Procs |-> "idle"]
    /\ tnow = [g \in Procs |-> 0]
    /\ elapsed = [g \in Procs |-> 0]
    /\ reg = [g \in Procs |-> 0]
    /\ wake = [g \in Procs |-> 0]
    /\ ctxDone = [g \in Procs |-> FALSE]
    /\ ret = [g \in Procs |-> "none"]
    /\ succ = 0
    /\ config = NoConfig
    /\ rpc = "idle"
    /\ attempt = 0
    /\ backoff = 0
    /\ lastErr = <<"nil">>
    /\ resp = [status |-> 0, header |-> <<>>, closed |-> FALSE]
    /\ waitTime = 0
    /\ rctxDone = FALSE
    /\ result = [resp |-> resp, err |-> lastErr]
    /\ inflight = 0
    /\ outs = <<>>
    /\ nwaits = 0
    /\ BackoffIdle
    /\ ClientIdle
    /\ SvcIdle
    /\ PricingIdle

\* The clock advances by one tick.
Tick ==
    /\ now < MaxTime
    /\ now' = now + 1
    /\ UNCHANGED <<tokens, maxTokens, refillRate, lastRefillTime, pc, tnow,
                   elapsed, reg, wake, ctxDone, ret, succ>>
    /\ UNCHANGED otherVars

\* Goroutine g calls rl.Wait(ctx); the ctx may already be cancelled.
Call(g) ==
    /\ pc[g] = "idle"
    /\ succ < MaxSucc
    /\ now + Horizon(refillRate) <= MaxTime
    /\ \E c \in BOOLEAN : ctxDone' = [ctxDone EXCEPT ![g] = c]
    /\ pc' = [pc EXCEPT ![g] = "refillNow"]
    /\ ret' = [ret EXCEPT ![g] = "none"]
    /\ UNCHANGED <<now, tokens, maxTokens, refillRate, lastRefillTime, tnow,
                   elapsed, reg, wake, succ>>
    /\ UNCHANGED otherVars

\* Wait returns: the locals of the call are gone.  (A local is also zeroed
\* at the step after which the code no longer reads it.)
Return(g) ==
    /\ tnow' = [tnow EXCEPT ![g] = 0]
    /\ elapsed' = [elapsed EXCEPT ![g] = 0]
    /\ reg' = [reg EXCEPT ![g] = 0]
    /\ wake' = [wake EXCEPT ![g] = 0]

\* refill: now := time.Now()
RefillNow(g) ==
    /\ pc[g] = "refillNow"
    /\ tnow' = [tnow EXCEPT ![g] = now]
    /\ pc' = [pc EXCEPT ![g] = "refillElapsed"]
    /\ UNCHANGED <<now, tokens, maxTokens, refillRate, lastRefillTime,
                   elapsed, reg, wake, ctxDone, ret, succ>>
    /\ UNCHANGED otherVars

\* refill: elapsed := now.Sub(rl.lastRefillTime).Seconds()
RefillElapsed(g) ==
    /\ pc[g] = "refillElapsed"
    /\ elapsed' = [elapsed EXCEPT ![g] = tnow[g] - lastRefillTime]
    /\ pc' = [pc EXCEPT ![g] = "refillLoad"]
    /\ UNCHANGED <<now, tokens, maxTokens, refillRate, lastRefillTime, tnow,
                   reg, wake, ctxDone, ret, succ>>
    /\ UNCHANGED otherVars

\* refill: the load of rl.tokens in rl.tokens = math.Min(..., rl.tokens + ...)
RefillLoad(g) ==
    /\ pc[g] = "refillLoad"
    /\ reg' = [reg EXCEPT ![g] = tokens]
    /\ pc' = [pc EXCEPT ![g] = "refillStore"]
    /\ UNCHANGED <<now, tokens, maxTokens, refillRate, lastRefillTime, tnow,
                   elapsed, wake, ctxDone, ret, succ>>
    /\ UNCHANGED otherVars

\* A refill that forgets the cap.
RefilledNoCap(g) == reg[g] + elapsed[g] * refillRate

\* refill: the store of rl.tokens = math.Min(rl.maxTokens, tokens + elapsed*rate)
Refilled(g) == Min(maxTokens, reg[g] + elapsed[g] * refillRate)

RefillStore(g) ==
    /\ pc[g] = "refillStore"
    /\ tokens' = Refilled(g)
    /\ elapsed' = [elapsed EXCEPT ![g] = 0]
    /\ reg' = [reg EXCEPT ![g] = 0]
    /\ pc' = [pc EXCEPT ![g] = "refillStamp"]
    /\ UNCHANGED <<now, maxTokens, refillRate, lastRefillTime, tnow, wake,
                   ctxDone, ret, succ>>
    /\ UNCHANGED otherVars

\* refill: rl.lastRefillTime = now
RefillStamp(g) ==
    /\ pc[g] = "refillStamp"
    /\ lastRefillTime' = tnow[g]
    /\ tnow' = [tnow EXCEPT ![g] = 0]
    /\ pc' = [pc EXCEPT ![g] = "check"]
    /\ UNCHANGED <<now, tokens, maxTokens, refillRate, elapsed, reg, wake,
                   ctxDone, ret, succ>>
    /\ UNCHANGED otherVars

\* A check that wants more than one token.
HasTokenStrict(t) == t > TokenUnit

\* Wait: if rl.tokens >= 1
HasToken(t) == t >= TokenUnit

Check(g) ==
    /\ pc[g] = "check"
    /\ pc' = [pc EXCEPT ![g] = IF HasToken(tokens) THEN "decLoad" ELSE "timer"]
    /\ UNCHANGED <<now, tokens, maxTokens, refillRate, lastRefillTime, tnow,
                   elapsed, reg, wake, ctxDone, ret, succ>>
    /\ UNCHANGED otherVars

\* Wait: the load of rl.tokens in rl.tokens--
DecLoad(g) ==
    /\ pc[g] = "decLoad"
    /\ reg' = [reg EXCEPT ![g] = tokens]
    /\ pc' = [pc EXCEPT ![g] = "decStore"]
    /\ UNCHANGED <<now, tokens, maxTokens, refillRate, lastRefillTime, tnow,
                   elapsed, wake, ctxDone, ret, succ>>
    /\ UNCHANGED otherVars

\* A decrement that takes two tokens.
DecrementedTwice(t) == t - 2 * TokenUnit

\* Wait: the store of rl.tokens--, and return nil
Decremented(t) == t - TokenUnit

DecStore(g) ==
    /\ pc[g] = "decStore"
    /\ tokens' = Decremented(reg[g])
    /\ ret' = [ret EXCEPT ![g] = "nil"]
    /\ succ' = succ + 1
    /\ pc' = [pc EXCEPT ![g] = "idle"]
    /\ Return(g)
    /\ UNCHANGED <<now, maxTokens, refillRate, lastRefillTime, ctxDone>>
    /\ UNCHANGED otherVars

\* Wait: waitTime := time.Duration((1 - rl.tokens) / rl.refillRate * second)
WaitTime(t, rate) == Trunc(TokenUnit - t, rate)

\* Wait: time.After(waitTime) is armed
Timer(g) ==
    /\ pc[g] = "timer"
    /\ wake' = [wake EXCEPT ![g] = now + WaitTime(tokens, refillRate)]
    /\ pc' = [pc EXCEPT ![g] = "poll"]
    /\ UNCHANGED <<now, tokens, maxTokens, refillRate, lastRefillTime, tnow,
                   elapsed, reg, ctxDone, ret, succ>>
    /\ UNCHANGED otherVars

\* Wait: the select is entered.  A case that is ready is taken (either one
\* when both are; the ctx case returns ctx.Err()); with none ready the
\* goroutine parks on both channels.
Poll(g) ==
    /\ pc[g] = "poll"
    /\ \/ /\ ctxDone[g]
          /\ pc' = [pc EXCEPT ![g] = "idle"]
          /\ ret' = [ret EXCEPT ![g] = "ctxErr"]
          /\ Return(g)
       \/ /\ now >= wake[g]
          /\ pc' = [pc EXCEPT ![g] = "refillNow"]
          /\ wake' = [wake EXCEPT ![g] = 0]
          /\ UNCHANGED <<tnow, elapsed, reg, ret>>
       \/ /\ ~ctxDone[g]
          /\ now < wake[g]
          /\ pc' = [pc EXCEPT ![g] = "parked"]
          /\ UNCHANGED <<tnow, elapsed, reg, wake, ret>>
    /\ UNCHANGED <<now, tokens, maxTokens, refillRate, lastRefillTime,
                   ctxDone, succ>>
    /\ UNCHANGED otherVars

\* Wait: case <-time.After(waitTime): the timer wakes the parked goroutine,
\* which goes round the loop.
TimerFires(g) ==
    /\ pc[g] = "parked"
    /\ now >= wake[g]
    /\ pc' = [pc EXCEPT ![g] = "refillNow"]
    /\ wake' = [wake EXCEPT ![g] = 0]
    /\ UNCHANGED <<now, tokens, maxTokens, refillRate, lastRefillTime, tnow,
                   elapsed, reg, ctxDone, ret, succ>>
    /\ UNCHANGED otherVars

\* The caller cancels the ctx of g's call.  Closing ctx.Done() wakes a
\* goroutine parked in the select, on the ctx case.
Cancel(g) ==
    /\ pc[g] # "idle"
    /\ ~ctxDone[g]
    /\ ctxDone' = [ctxDone EXCEPT ![g] = TRUE]
    /\ pc' = [pc EXCEPT ![g] = IF pc[g] = "parked" THEN "ctxWoken" ELSE pc[g]]
    /\ UNCHANGED <<now, tokens, maxTokens, refillRate, lastRefillTime, tnow,
                   elapsed, reg, wake, ret, succ>>
    /\ UNCHANGED otherVars

\* A cancelled acquisition that takes a token on its way out.
ReturnCtxErrSpending(g) ==
    /\ pc[g] = "ctxWoken"
    /\ tokens' = tokens - TokenUnit
    /\ ret' = [ret EXCEPT ![g] = "ctxErr"]
    /\ pc' = [pc EXCEPT ![g] = "idle"]
    /\ Return(g)
    /\ UNCHANGED <<now, maxTokens, refillRate, lastRefillTime, ctxDone, succ>>
    /\ UNCHANGED otherVars

\* Wait: case <-ctx.Done(): return ctx.Err(), in the goroutine that the
\* cancellation woke.
ReturnCtxErr(g) ==
    /\ pc[g] = "ctxWoken"
    /\ ret' = [ret EXCEPT ![g] = "ctxErr"]
    /\ pc' = [pc EXCEPT ![g] = "idle"]
    /\ Return(g)
    /\ UNCHANGED <<now, tokens, maxTokens, refillRate, lastRefillTime,
                   ctxDone, succ>>
    /\ UNCHANGED otherVars

\* One step of goroutine g inside Wait.
Wait(g) ==
    \/ RefillNow(g)
    \/ RefillElapsed(g)
    \/ RefillLoad(g)
    \/ RefillStore(g)
    \/ RefillStamp(g)
    \/ Check(g)
    \/ DecLoad(g)
    \/ DecStore(g)
    \/ Timer(g)
    \/ Poll(g)
    \/ TimerFires(g)
    \/ ReturnCtxErr(g)

\* Several goroutines share one limiter, NewRateLimiter(SharedRate, SharedBurst).
InitShared ==
    /\ InitLimiter
    /\ refillRate = SharedRate
    /\ maxTokens = SharedBurst * TokenUnit

NextShared == Tick \/ \E g \in Procs : Call(g) \/ Wait(g) \/ Cancel(g)

SpecShared == InitShared /\ [][NextShared]_vars

\* One caller uses the limiter.
NextLimiter == Tick \/ Call(1) \/ Wait(1) \/ Cancel(1)

SpecLimiter == InitLimiter /\ [][NextLimiter]_vars

\* For termination the clock is bounded, so every started call must be able
\* to finish inside it: the statements of Wait take no time, and time passes
\* between calls and at the select.
TickQuiet ==
    /\ pc[1] \in {"idle", "poll", "parked"}
    /\ Tick

NextLive == TickQuiet \/ Call(1) \/ Wait(1) \/ Cancel(1)

\* Time always passes, and the scheduler runs a runnable goroutine.
LiveLimiter ==
    InitLimiter /\ [][NextLive]_vars /\ SF_vars(TickQuiet) /\ WF_vars(Wait(1))

\* ------------------------------------------------------------ doWithRetry
\* Errors are tuples: <<"nil">>, <<"transport", id>>, <<"ctx">> (ctx.Err())
\* and <<"exhausted", n, e>> for
\* fmt.Errorf("request failed after %d retries: %w", n, e).
NoErr == <<"nil">>
CtxErr == <<"ctx">>
Exhausted(n, e) == <<"exhausted", n, e>>

\* The absent response.
NoResp == [status |-> 0, header |-> <<>>, closed |-> FALSE]

\* What httpClient.Do can fail with while the ctx is live.
TransportErrs == {"refused", "reset"}

\* Status codes the upstream answers with.
Statuses == {200, 404, 429, 503}

\* Retry-After values the upstream sends, as strings of characters: none,
\* seconds, seconds with a stray unit letter, a negative number, an HTTP date.
Headers == {<<>>, <<"2">>, <<"3", "m">>, <<"-", "1">>, <<"W", "e", "d">>}

\* The RetryOnStatus lists in use: DefaultRetryConfig's, and a shorter one.
RetryOnChoices == {{429, 500, 502, 503, 504}, {429}}

\* RetryConfig values.  BackoffFactor is FactorNum / FactorDen and Jitter is
\* JitterNum / JitterDen.
Configs ==
    [MaxRetries : -1..MaxMaxRetries,
     InitialBackoff : 1..MaxInitialBackoff,
     MaxBackoff : 1..MaxMaxBackoff,
     FactorNum : 1..MaxFactorNum,
     JitterNum : 0..MaxJitterNum,
     RetryOnStatus : RetryOnChoices]

\* A classification that retries every error status.
shouldRetryErrors(statusCode, retryOnStatus) == statusCode >= 400

\* shouldRetry(statusCode, retryOnStatus)
shouldRetry(statusCode, retryOnStatus) == statusCode \in retryOnStatus

\* A backoff that is not clamped to max.
calculateBackoffNoCap(base, max, jitterNum) ==
    IF jitterNum > 0 /\ base > 0
    THEN ((base * (JitterDen - jitterNum)) \div JitterDen)
             ..((base * (JitterDen + jitterNum)) \div JitterDen)
    ELSE {base}

\* A backoff whose jitter range is taken from the base before the clamp.
calculateBackoffRangeOfBase(base, max, jitterNum) ==
    LET c == IF base > max THEN max ELSE base
        lo == (c * JitterDen - base * jitterNum) \div JitterDen
        hi == (c * JitterDen + base * jitterNum) \div JitterDen
    IN  IF jitterNum > 0 /\ c > 0 THEN lo..hi ELSE {c}

\* The values calculateBackoff(base, max, jitter) can return for base and max
\* that are not negative: the clamped base c when jitter is 0, else the
\* truncation of a point of [c - c*jitter, c + c*jitter] (rand.Float64() is
\* in [0, 1), and the float64 sum can round up to the upper end).
calculateBackoff(base, max, jitterNum) ==
    LET c == IF base > max THEN max ELSE base
        lo == (c * (JitterDen - jitterNum)) \div JitterDen
        hi == (c * (JitterDen + jitterNum)) \div JitterDen
    IN  IF jitterNum > 0 /\ c > 0 THEN lo..hi ELSE {c}

\* A loop that forgets to grow the backoff.
GrowNot(b, factorNum) == b

\* time.Duration(float64(backoff) * config.BackoffFactor)
Grow(b, factorNum) == (b * factorNum) \div FactorDen

\* time.ParseDuration, in ms, on strings over digits, "-", "+" and letters
\* (no fractions): [-+]?([0-9]+[a-z]+)+ with the units ms, s, m, h.
Digits == {"0", "1", "2", "3", "4", "5", "6", "7", "8", "9"}

DigitVal(c) ==
    CASE c = "0" -> 0 [] c = "1" -> 1 [] c = "2" -> 2 [] c = "3" -> 3
      [] c = "4" -> 4 [] c = "5" -> 5 [] c = "6" -> 6 [] c = "7" -> 7
      [] c = "8" -> 8 [] c = "9" -> 9

UnitMs(u) ==
    CASE u = <<"m", "s">> -> 1
      [] u = <<"s">> -> 1000
      [] u = <<"m">> -> 60000
      [] u = <<"h">> -> 3600000
      [] OTHER -> 0

\* length of the longest prefix of s made of digits (digit = TRUE) or of
\* non-digits (digit = FALSE)
RECURSIVE Run(_, _)
Run(s, digit) ==
    IF s = <<>> \/ ((Head(s) \in Digits) # digit) THEN 0
    ELSE 1 + Run(Tail(s), digit)

RECURSIVE IntVal(_, _)
IntVal(s, acc) ==
    IF s = <<>> THEN acc ELSE IntVal(Tail(s), 10 * acc + DigitVal(Head(s)))

NoDuration == [ok |-> FALSE, d |-> 0]

RECURSIVE ParseGroups(_, _)
ParseGroups(s, acc) ==
    IF s = <<>> THEN [ok |-> TRUE, d |-> acc]
    ELSE LET nd == Run(s, TRUE)
             rest == SubSeq(s, nd + 1, Len(s))
             nu == Run(rest, FALSE)
             unit == UnitMs(SubSeq(rest, 1, nu))
         IN  IF nd = 0 \/ nu = 0 \/ unit = 0 THEN NoDuration
             ELSE ParseGroups(SubSeq(rest, nu + 1, Len(rest)),
                              acc + IntVal(SubSeq(s, 1, nd), 0) * unit)

ParseDuration(s) ==
    LET signed == s # <<>> /\ Head(s) \in {"-", "+"}
        body == IF signed THEN Tail(s) ELSE s
        p == ParseGroups(body, 0)
    IN  IF body = <<"0">> THEN [ok |-> TRUE, d |-> 0]
        ELSE IF body = <<>> \/ ~p.ok THEN NoDuration
        ELSE [ok |-> TRUE, d |-> IF signed /\ Head(s) = "-" THEN -p.d ELSE p.d]

\* A wait that ignores the Retry-After header.
RetryAfterIgnored(header, w) == w

\* doWithRetry, lines 98-105: the computed backoff w, unless the response
\* has a Retry-After header that time.ParseDuration(retryAfter + "s") accepts.
RetryAfterWait(header, w) ==
    IF header # <<>> /\ ParseDuration(header \o <<"s">>).ok
    THEN ParseDuration(header \o <<"s">>).d
    ELSE w

\* No doWithRetry call is in progress.
RetryIdle ==
    /\ rpc = "idle"
    /\ attempt = 0
    /\ backoff = 0
    /\ lastErr = NoErr
    /\ resp = NoResp
    /\ waitTime = 0
    /\ rctxDone = FALSE
    /\ result = [resp |-> NoResp, err |-> NoErr]
    /\ inflight = 0
    /\ outs = <<>>
    /\ nwaits = 0

\* The limiter is not in use.
LimiterIdle ==
    /\ now = 0
    /\ NewRateLimiter(1, 0)
    /\ pc = [g \in Procs |-> "idle"]
    /\ tnow = [g \in Procs |-> 0]
    /\ elapsed = [g \in Procs |-> 0]
    /\ reg = [g \in Procs |-> 0]
    /\ wake = [g \in Procs |-> 0]
    /\ ctxDone = [g \in Procs |-> FALSE]
    /\ ret = [g \in Procs |-> "none"]
    /\ succ = 0

InitRetry ==
    /\ config \in Configs
    /\ RetryIdle
    /\ LimiterIdle
    /\ BackoffIdle
    /\ ClientIdle
    /\ SvcIdle
    /\ PricingIdle

\* doWithRetry is called: lines 65-73.
RetryCall ==
    /\ rpc = "idle"
    /\ rpc' = "loop"
    /\ attempt' = 0
    /\ backoff' = config.InitialBackoff
    /\ lastErr' = NoErr
    /\ \E c \in BOOLEAN : rctxDone' = c
    /\ UNCHANGED <<config, resp, waitTime, result, inflight, outs, nwaits>>
    /\ UNCHANGED notRetryVars

\* A loop that goes round once more.
LoopBoundOneMore(maxRetries) == maxRetries + 1

\* The bound of the loop of line 75.
LoopBound(maxRetries) == maxRetries

Send ==
    /\ rpc = "loop"
    /\ attempt <= LoopBound(config.MaxRetries)
    /\ rpc' = "do"
    /\ inflight' = inflight + 1
    /\ UNCHANGED <<config, attempt, backoff, lastErr, resp, waitTime,
                   rctxDone, result, outs, nwaits>>
    /\ UNCHANGED notRetryVars

\* The loop test fails: line 119.
FallOut ==
    /\ rpc = "loop"
    /\ ~(attempt <= LoopBound(config.MaxRetries))
    /\ result' = [resp |-> NoResp, err |-> Exhausted(config.MaxRetries, lastErr)]
    /\ rpc' = "done"
    /\ UNCHANGED <<config, attempt, backoff, lastErr, resp, waitTime,
                   rctxDone, inflight, outs, nwaits>>
    /\ UNCHANGED notRetryVars

\* A budget that is one retry short.
RetriesRemainShort(a) == a + 1 < config.MaxRetries

\* attempt < config.MaxRetries, the test of lines 82 and 96
RetriesRemain(a) == a < config.MaxRetries

\* A cancelled wait that falls through to the exhaustion error.
CancelledAsExhausted ==
    [resp |-> NoResp, err |-> Exhausted(config.MaxRetries, lastErr)]

\* case <-ctx.Done(): return nil, ctx.Err()   (lines 85-86 and 108-109)
Cancelled == [resp |-> NoResp, err |-> CtxErr]

\* The select of lines 84-88 and 107-111 is entered with waitTime w.  A
\* cancelled ctx is taken at once (the timer case too, if w <= 0 has it
\* ready); otherwise the call parks.
EnterSelect(w, parked) ==
    /\ waitTime' = w
    /\ \/ /\ rctxDone
          /\ result' = Cancelled
          /\ rpc' = "done"
       \/ /\ ~rctxDone \/ w <= 0
          /\ rpc' = parked
          /\ UNCHANGED result

\* httpClient.Do returns an error: lines 80-93.  Under a cancelled ctx the
\* error is the ctx's.
DoFails ==
    /\ rpc = "do"
    /\ \E e \in IF rctxDone THEN {"canceled"} ELSE TransportErrs :
         /\ inflight' = inflight - 1
         /\ lastErr' = <<"transport", e>>
         /\ outs' = Append(outs, <<"transport", e>>)
         /\ resp' = NoResp
         /\ IF RetriesRemain(attempt)
            THEN \E w \in calculateBackoff(backoff, config.MaxBackoff,
                                           config.JitterNum) :
                    EnterSelect(w, "waitErr")
            ELSE /\ result' = [resp |-> NoResp,
                               err |-> Exhausted(config.MaxRetries,
                                                 <<"transport", e>>)]
                 /\ rpc' = "done"
                 /\ UNCHANGED waitTime
    /\ UNCHANGED <<config, attempt, backoff, rctxDone, nwaits>>
    /\ UNCHANGED notRetryVars

\* Whether lines 96-114 retry on the response.
RetryOnResponse(status) ==
    shouldRetry(status, config.RetryOnStatus) /\ RetriesRemain(attempt)

\* httpClient.Do returns a response: lines 95-116.
DoAnswers ==
    /\ rpc = "do"
    /\ ~rctxDone
    /\ \E st \in Statuses, h \in Headers :
         /\ inflight' = inflight - 1
         /\ outs' = Append(outs, <<"status", st>>)
         /\ IF RetryOnResponse(st)
            THEN /\ resp' = [status |-> st, header |-> h, closed |-> TRUE]
                 /\ \E w \in calculateBackoff(backoff, config.MaxBackoff,
                                              config.JitterNum) :
                       EnterSelect(RetryAfterWait(h, w), "waitStatus")
            ELSE /\ resp' = [status |-> st, header |-> h, closed |-> FALSE]
                 /\ result' = [resp |-> resp', err |-> NoErr]
                 /\ rpc' = "done"
                 /\ UNCHANGED waitTime
    /\ UNCHANGED <<config, attempt, backoff, lastErr, rctxDone, nwaits>>
    /\ UNCHANGED notRetryVars

\* case <-time.After(waitTime): the wait is over, the backoff grows and the
\* loop goes round (lines 89-90 and 112-113); resp and waitTime, locals of
\* the loop body, are gone.
WaitOver ==
    /\ rpc \in {"waitErr", "waitStatus"}
    /\ nwaits' = nwaits + 1
    /\ backoff' = Grow(backoff, config.FactorNum)
    /\ attempt' = attempt + 1
    /\ resp' = NoResp
    /\ waitTime' = 0
    /\ rpc' = "loop"
    /\ UNCHANGED <<config, lastErr, rctxDone, result, inflight, outs>>
    /\ UNCHANGED notRetryVars

\* The caller cancels the ctx.  A call parked in a select wakes on the ctx
\* case and returns ctx.Err() (lines 85-86 and 108-109).
RetryCancel ==
    /\ rpc \notin {"idle", "done"}
    /\ ~rctxDone
    /\ rctxDone' = TRUE
    /\ IF rpc \in {"waitErr", "waitStatus"}
       THEN /\ result' = Cancelled
            /\ rpc' = "done"
       ELSE UNCHANGED <<result, rpc>>
    /\ UNCHANGED <<config, attempt, backoff, lastErr, resp, waitTime,
                   inflight, outs, nwaits>>
    /\ UNCHANGED notRetryVars

NextRetry == RetryCall \/ Send \/ FallOut \/ DoFails \/ DoAnswers \/ WaitOver
             \/ RetryCancel

SpecRetry == InitRetry /\ [][NextRetry]_vars

\* httpClient.Do comes back (the http.Client has a Timeout), timers fire and
\* the goroutine of the call is scheduled.
LiveRetry ==
    SpecRetry /\ WF_vars(Send \/ FallOut \/ DoFails \/ DoAnswers \/ WaitOver)

\* ------------------------------------------------- calculateBackoff alone
\* calculateBackoff is called with some base, max and jitter.
InitBackoff ==
    /\ cbArgs \in [base : 0..MaxBase, max : 0..MaxMaxBackoff,
                    jitterNum : 0..MaxJitterNum]
    /\ cbRet = <<>>
    /\ config = NoConfig
    /\ RetryIdle
    /\ LimiterIdle
    /\ ClientIdle
    /\ SvcIdle
    /\ PricingIdle

\* The call returns.
BackoffReturn ==
    /\ cbRet = <<>>
    /\ \E d \in calculateBackoff(cbArgs.base, cbArgs.max, cbArgs.jitterNum) :
          cbRet' = <<d>>
    /\ UNCHANGED cbArgs
    /\ UNCHANGED <<limVars, retryVars, clientVars, pricingVars, svcVars>>

NextBackoff == BackoffReturn

SpecBackoff == InitBackoff /\ [][NextBackoff]_vars

\* ---------------------------------------------------- Client.Get and Post
\* What the upstream answers to a data request with.
ClientStatuses == {200, 401, 404, 429, 503}

\* The calls of one goroutine are Get or Post on the shared Client.
ClientCall(g) ==
    /\ cpc[g] = "idle"
    /\ calls < MaxCalls
    /\ calls' = calls + 1
    /\ \E m \in {"GET", "POST"} : method' = [method EXCEPT ![g] = m]
    /\ cres' = [cres EXCEPT ![g] = "none"]
    /\ cpc' = [cpc EXCEPT ![g] = "ensure"]
    /\ UNCHANGED <<crumb, reqCrumb, sent>>
    /\ UNCHANGED notClientVars

\* Get and Post return r: the locals of the call are gone.
ClientReturn(g, r) ==
    /\ cres' = [cres EXCEPT ![g] = r]
    /\ cpc' = [cpc EXCEPT ![g] = "idle"]
    /\ method' = [method EXCEPT ![g] = "none"]
    /\ reqCrumb' = [reqCrumb EXCEPT ![g] = ""]

\* ensureAuthenticated: the crumb is read under the read lock, and
\* authenticate is called when it is empty.
EnsureAuthenticated(g) ==
    /\ cpc[g] = "ensure"
    /\ cpc' = [cpc EXCEPT ![g] = IF crumb = "" THEN "cookie" ELSE "getCrumb"]
    /\ UNCHANGED <<crumb, method, reqCrumb, cres, sent, calls>>
    /\ UNCHANGED notClientVars

\* authenticate: the cookie request, lines 75-85.
AuthCookie(g) ==
    /\ cpc[g] = "cookie"
    /\ \/ /\ cpc' = [cpc EXCEPT ![g] = "crumbReq"]
          /\ UNCHANGED <<method, reqCrumb, cres>>
       \/ ClientReturn(g, "failed to get cookies")
    /\ UNCHANGED <<crumb, sent, calls>>
    /\ UNCHANGED notClientVars

\* authenticate: the crumb request and its answer, lines 88-112.
AuthCrumb(g) ==
    /\ cpc[g] = "crumbReq"
    /\ \/ /\ cpc' = [cpc EXCEPT ![g] = "authStore"]
          /\ UNCHANGED <<method, reqCrumb, cres>>
       \/ ClientReturn(g, "failed to get crumb")
       \/ ClientReturn(g, "ErrAuthentication")
    /\ UNCHANGED <<crumb, sent, calls>>
    /\ UNCHANGED notClientVars

\* authenticate: c.crumb = crumb under the write lock, lines 114-118.
AuthStore(g) ==
    /\ cpc[g] = "authStore"
    /\ crumb' = "crumb"
    /\ cpc' = [cpc EXCEPT ![g] = "getCrumb"]
    /\ UNCHANGED <<method, reqCrumb, cres, sent, calls>>
    /\ UNCHANGED notClientVars

\* crumb := c.getCrumb(), and the crumb parameter is set when it is not
\* empty: lines 150-153 and 218-221.
GetCrumb(g) ==
    /\ cpc[g] = "getCrumb"
    /\ reqCrumb' = [reqCrumb EXCEPT ![g] = crumb]
    /\ cpc' = [cpc EXCEPT ![g] = "send"]
    /\ UNCHANGED <<crumb, method, cres, sent, calls>>
    /\ UNCHANGED notClientVars

\* The request is built (an error of json.Marshal or of
\* http.NewRequestWithContext returns) and handed to c.httpClient.Do, with no
\* call of the rate limiter or of doWithRetry: lines 155-168 and 223-248.
ClientDo(g) ==
    /\ cpc[g] = "send"
    /\ \/ /\ sent' = sent + 1
          /\ cpc' = [cpc EXCEPT ![g] = "await"]
          /\ UNCHANGED <<method, reqCrumb, cres>>
       \/ /\ ClientReturn(g, "RequestError")
          /\ UNCHANGED sent
    /\ UNCHANGED <<crumb, calls>>
    /\ UNCHANGED notClientVars

\* What Get and Post return for a response with status st: lines 180-205
\* and 260-280 (Post has no ErrNotFound case).
ClientResult(m, st) ==
    IF st = 401 THEN "ErrAuthentication"
    ELSE IF st = 429 THEN "ErrRateLimited"
    ELSE IF st = 404 /\ m = "GET" THEN "ErrNotFound"
    ELSE IF st >= 400 THEN "APIError"
    ELSE "body"

\* httpClient.Do returns, with an error or with a response whose body is
\* read; a 401 clears the crumb under the write lock.
ClientAnswer(g) ==
    /\ cpc[g] = "await"
    /\ \/ /\ ClientReturn(g, "RequestError")
          /\ UNCHANGED crumb
       \/ \E st \in ClientStatuses :
            /\ ClientReturn(g, ClientResult(method[g], st))
            /\ crumb' = IF st = 401 THEN "" ELSE crumb
    /\ UNCHANGED <<sent, calls>>
    /\ UNCHANGED notClientVars

\* A Client built with WithRateLimiter(SharedRate, SharedBurst) and
\* WithRetry(config).
InitClient ==
    /\ ClientIdle
    /\ SvcIdle
    /\ BackoffIdle
    /\ PricingIdle
    /\ config \in {c \in Configs : c.MaxRetries = MaxMaxRetries
                                    /\ c.InitialBackoff = 1
                                    /\ c.MaxBackoff = MaxMaxBackoff
                                    /\ c.FactorNum = MaxFactorNum
                                    /\ c.JitterNum = 0}
    /\ RetryIdle
    /\ now = 0
    /\ NewRateLimiter(SharedRate, SharedBurst)
    /\ pc = [g \in Procs |-> "idle"]
    /\ tnow = [g \in Procs |-> 0]
    /\ elapsed = [g \in Procs |-> 0]
    /\ reg = [g \in Procs |-> 0]
    /\ wake = [g \in Procs |-> 0]
    /\ ctxDone = [g \in Procs |-> FALSE]
    /\ ret = [g \in Procs |-> "none"]
    /\ succ = 0

NextClient ==
    \E g \in Procs :
        \/ ClientCall(g)
        \/ EnsureAuthenticated(g)
        \/ AuthCookie(g)
        \/ AuthCrumb(g)
        \/ AuthStore(g)
        \/ GetCrumb(g)
        \/ ClientDo(g)
        \/ ClientAnswer(g)

SpecClient == InitClient /\ [][NextClient]_vars

\* ------------------------------------------------------- float64 arithmetic
\* A float64 is modelled in fixed point, as an integer number of 1/FP, or as
\* one of NaN, +Inf and -Inf.  The range is that of the integers in use: a
\* magnitude above MaxFinite overflows to an infinity, one below 1/(2 FP)
\* underflows to 0 (there is no negative zero).
FP == 10000

MaxFinite == 1000000000

PosInf == 2147483646

NegInf == -PosInf

NaN == -2147483647

IsNaN(x) == x = NaN

IsInf(x) == x = PosInf \/ x = NegInf

Abs(x) == IF x < 0 THEN -x ELSE x

Sign(x) == IF x < 0 THEN -1 ELSE 1

\* the float64 nearest to the integer v, |v| < 2^31
Saturate(v) ==
    IF v > MaxFinite THEN PosInf ELSE IF v < -MaxFinite THEN NegInf ELSE v

\* n / d rounded to the nearest integer, for d > 0
RDiv(n, d) == Sign(n) * ((Abs(n) + d \div 2) \div d)

\* Comparisons are false when an operand is NaN.
FLt(x, y) == ~IsNaN(x) /\ ~IsNaN(y) /\ x < y

FLe(x, y) == ~IsNaN(x) /\ ~IsNaN(y) /\ x <= y

FNeg(x) == IF IsNaN(x) THEN NaN ELSE -x

FAdd(x, y) ==
    IF IsNaN(x) \/ IsNaN(y) THEN NaN
    ELSE IF IsInf(x) THEN (IF IsInf(y) /\ y # x THEN NaN ELSE x)
    ELSE IF IsInf(y) THEN y
    ELSE Saturate(x + y)

FSub(x, y) == FAdd(x, FNeg(y))

\* x * y, the product taken limb by limb so that it stays in range
FMul(x, y) ==
    IF IsNaN(x) \/ IsNaN(y) THEN NaN
    ELSE IF IsInf(x) \/ IsInf(y)
    THEN (IF x = 0 \/ y = 0 THEN NaN ELSE Sign(x) * Sign(y) * PosInf)
    ELSE LET a == Abs(x)
             b == Abs(y)
             ai == a \div FP
             bi == b \div FP
         IN  IF ai > 0 /\ bi > (MaxFinite \div FP) \div ai
             THEN Sign(x) * Sign(y) * PosInf
             ELSE Sign(x) * Sign(y)
                    * Saturate(ai * bi * FP + ai * (b % FP) + (a % FP) * bi
                               + RDiv((a % FP) * (b % FP), FP))

\* r * FP / d rounded, for 0 <= r < d, by long division
RECURSIVE Frac(_, _, _, _)
Frac(r, d, unit, acc) ==
    IF unit = 1 THEN acc + (IF 2 * r >= d THEN 1 ELSE 0)
    ELSE Frac((10 * r) % d, d, unit \div 10, 10 * acc + (10 * r) \div d)

\* x / y: 0/0 and Inf/Inf are NaN, x/0 is an infinity
FDiv(x, y) ==
    IF IsNaN(x) \/ IsNaN(y) \/ (x = 0 /\ y = 0) \/ (IsInf(x) /\ IsInf(y))
    THEN NaN
    ELSE IF IsInf(x) \/ y = 0 THEN Sign(x) * Sign(y) * PosInf
    ELSE IF IsInf(y) THEN 0
    ELSE LET a == Abs(x)
             b == Abs(y)
         IN  Sign(x) * Sign(y)
                 * (IF a \div b > MaxFinite \div FP THEN PosInf
                    ELSE IF b > MaxFinite \div 10
                    THEN (a \div b) * FP
                             + Frac((a \div 10) % (b \div 10), b \div 10,
                                    FP, 0)
                    ELSE (a \div b) * FP + Frac(a % b, b, FP, 0))

\* math.Max
FMax(x, y) ==
    IF x = PosInf \/ y = PosInf THEN PosInf
    ELSE IF IsNaN(x) \/ IsNaN(y) THEN NaN
    ELSE IF x >= y THEN x ELSE y

\* floor(sqrt(n)) for n > 0, by Newton's iteration from r above it
RECURSIVE ISqrtFrom(_, _)
ISqrtFrom(n, r) ==
    LET r2 == (r + n \div r) \div 2
    IN  IF r2 >= r THEN r ELSE ISqrtFrom(n, r2)

\* math.Sqrt
FSqrt(x) ==
    IF IsNaN(x) \/ x < 0 THEN NaN
    ELSE IF x = PosInf THEN PosInf
    ELSE IF x = 0 THEN 0
    ELSE IF x <= 200000 THEN ISqrtFrom(x * FP, x * FP)
    ELSE 10 * ISqrtFrom(x * (FP \div 100), x * (FP \div 100))

RECURSIVE Pow2(_)
Pow2(k) == IF k = 0 THEN 1 ELSE 2 * Pow2(k - 1)

\* ln 2, sqrt 2 and sqrt(2 pi)
Ln2 == 6931

Sqrt2 == 14142

Sqrt2Pi == 25066

\* x * y for finite x and y whose product is in range
Times(x, y) == RDiv(x * y, FP)

\* e^r for |r| <= (ln 2)/2, by its Taylor series
ExpSmall(r) ==
    LET t6 == FP + RDiv(r, 7)
        t5 == FP + RDiv(Times(r, t6), 6)
        t4 == FP + RDiv(Times(r, t5), 5)
        t3 == FP + RDiv(Times(r, t4), 4)
        t2 == FP + RDiv(Times(r, t3), 3)
        t1 == FP + RDiv(Times(r, t2), 2)
    IN  FP + Times(r, t1)

\* math.Exp: e^x = 2^k e^r with x = k ln 2 + r
FExp(x) ==
    IF IsNaN(x) THEN NaN
    ELSE IF x < -20 * FP THEN 0
    ELSE IF x > 11 * FP THEN PosInf
    ELSE LET k == RDiv(x, Ln2)
             r == x - RDiv(k * 693147, 100)
         IN  IF k >= 0 THEN ExpSmall(r) * Pow2(k)
             ELSE RDiv(ExpSmall(r), Pow2(-k))

\* ln m for m in [1/sqrt 2, sqrt 2], by the series of 2 atanh((m-1)/(m+1))
LnNear1(m) ==
    LET z == RDiv((m - FP) * FP, m + FP)
        zz == Times(z, z)
        s3 == RDiv(FP, 7)
        s2 == RDiv(FP, 5) + Times(zz, s3)
        s1 == RDiv(FP, 3) + Times(zz, s2)
        s0 == FP + Times(zz, s1)
    IN  2 * Times(z, s0)

RECURSIVE LnPos(_, _)
LnPos(x, k) ==
    IF RDiv(x, Pow2(k)) > Sqrt2 THEN LnPos(x, k + 1)
    ELSE LnNear1(RDiv(x, Pow2(k))) + RDiv(k * 693147, 100)

RECURSIVE LnBelow(_, _)
LnBelow(x, k) ==
    IF x * Pow2(k) < RDiv(FP * FP, Sqrt2) THEN LnBelow(x, k + 1)
    ELSE LnNear1(x * Pow2(k)) - RDiv(k * 693147, 100)

\* math.Log: NaN below 0, -Inf at 0
FLog(x) ==
    IF IsNaN(x) \/ x < 0 THEN NaN
    ELSE IF x = 0 THEN NegInf
    ELSE IF x = PosInf THEN PosInf
    ELSE IF x >= FP THEN LnPos(x, 0) ELSE LnBelow(x, 0)

\* erf z for 0 <= z <= 1/2, by its Taylor series
\* (2/sqrt pi) (z - z^3/3 + z^5/10 - z^7/42 + z^9/216)
ErfSmall(z) ==
    LET zz == Times(z, z)
        s4 == RDiv(FP, 216)
        s3 == Times(zz, s4) - RDiv(FP, 42)
        s2 == Times(zz, s3) + RDiv(FP, 10)
        s1 == Times(zz, s2) - RDiv(FP, 3)
        s0 == Times(zz, s1) + FP
    IN  Times(11284, Times(z, s0))

\* erf z for 1/2 < z <= 6, by the rational approximation 7.1.26 of
\* Abramowitz and Stegun
ErfLarge(z) ==
    LET t == RDiv(FP * FP, FP + Times(3276, z))
        p5 == 10614
        p4 == Times(t, p5) - 14532
        p3 == Times(t, p4) + 14214
        p2 == Times(t, p3) - 2845
        p1 == Times(t, p2) + 2548
    IN  FP - Times(Times(t, p1), FExp(-FMul(z, z)))

\* math.Erf, an odd function; beyond 6 the float64 result is 1
FErf(x) ==
    IF IsNaN(x) THEN NaN
    ELSE LET z == Abs(x)
             e == IF z > 6 * FP THEN FP
                  ELSE IF 2 * z <= FP THEN ErfSmall(z)
                  ELSE ErfLarge(z)
         IN  IF x < 0 THEN -e ELSE e

\* normalCDF(x) = 0.5 * (1 + math.Erf(x / math.Sqrt2))
normalCDF(x) == FMul(FP \div 2, FAdd(FP, FErf(FDiv(x, Sqrt2))))

\* normalPDF(x) = math.Exp(-x*x/2) / math.Sqrt(2*math.Pi)
normalPDF(x) ==
    FDiv(FExp(FDiv(FMul(FNeg(x), x), 2 * FP)), Sqrt2Pi)

\* ------------------------------------------------- Black-Scholes functions
\* d1 := (math.Log(S/K) + (r+sigma*sigma/2)*T) / (sigma * sqrtT)
D1(S, K, r, T, sigma) ==
    FDiv(FAdd(FLog(FDiv(S, K)),
              FMul(FAdd(r, FDiv(FMul(sigma, sigma), 2 * FP)), T)),
         FMul(sigma, FSqrt(T)))

\* An intrinsic value that is not floored at 0.
blackScholesPriceNoFloor(S, K, r, T, sigma, isCall) ==
    IF FLe(T, 0)
    THEN IF isCall THEN FSub(S, K) ELSE FSub(K, S)
    ELSE LET d1 == D1(S, K, r, T, sigma)
             d2 == FSub(d1, FMul(sigma, FSqrt(T)))
             discounted == FMul(K, FExp(FMul(FNeg(r), T)))
         IN  IF isCall
             THEN FSub(FMul(S, normalCDF(d1)),
                       FMul(discounted, normalCDF(d2)))
             ELSE FSub(FMul(discounted, normalCDF(FNeg(d2))),
                       FMul(S, normalCDF(FNeg(d1))))

\* blackScholesPrice(S, K, r, T, sigma, isCall)
blackScholesPrice(S, K, r, T, sigma, isCall) ==
    IF FLe(T, 0)
    THEN IF isCall THEN FMax(FSub(S, K), 0) ELSE FMax(FSub(K, S), 0)
    ELSE LET d1 == D1(S, K, r, T, sigma)
             d2 == FSub(d1, FMul(sigma, FSqrt(T)))
             discounted == FMul(K, FExp(FMul(FNeg(r), T)))
         IN  IF isCall
             THEN FSub(FMul(S, normalCDF(d1)),
                       FMul(discounted, normalCDF(d2)))
             ELSE FSub(FMul(discounted, normalCDF(FNeg(d2))),
                       FMul(S, normalCDF(FNeg(d1))))

\* A vega without the guard on T.
blackScholesVegaNoGuard(S, K, r, T, sigma) ==
    FMul(FMul(S, FSqrt(T)), normalPDF(D1(S, K, r, T, sigma)))

\* blackScholesVega(S, K, r, T, sigma)
blackScholesVega(S, K, r, T, sigma) ==
    IF FLe(T, 0) THEN 0
    ELSE FMul(FMul(S, FSqrt(T)), normalPDF(D1(S, K, r, T, sigma)))

\* The Greeks of a call or a put: lines 30-63.
GreeksOf(S, K, r, T, sigma, isCall) ==
    LET sqrtT == FSqrt(T)
        d1 == D1(S, K, r, T, sigma)
        d2 == FSub(d1, FMul(sigma, FSqrt(T)))
        Nd1 == normalCDF(d1)
        Nd2 == normalCDF(d2)
        Nd2Neg == normalCDF(FNeg(d2))
        nd1 == normalPDF(d1)
        decay == FNeg(FDiv(FMul(FMul(S, nd1), sigma), FMul(2 * FP, sqrtT)))
        carry == FMul(FMul(r, K), FExp(FMul(FNeg(r), T)))
        theta == IF isCall THEN FSub(decay, FMul(carry, Nd2))
                 ELSE FAdd(decay, FMul(carry, Nd2Neg))
    IN  [Delta |-> IF isCall THEN Nd1 ELSE FSub(Nd1, FP),
         Gamma |-> FDiv(nd1, FMul(FMul(S, sigma), sqrtT)),
         Theta |-> FDiv(theta, 365 * FP),
         Vega |-> FDiv(FMul(FMul(S, sqrtT), nd1), 100 * FP),
         Rho |-> IF isCall
                 THEN FDiv(FMul(FMul(FMul(K, T), FExp(FMul(FNeg(r), T))),
                                Nd2), 100 * FP)
                 ELSE FDiv(FMul(FMul(FMul(FNeg(K), T),
                                     FExp(FMul(FNeg(r), T))), Nd2Neg),
                           100 * FP)]

\* A guard that refuses only when both T and sigma are out of range.
CalculateGreeksBothBad(S, K, r, T, sigma, isCall) ==
    IF FLe(T, 0) /\ FLe(sigma, 0) THEN <<>>
    ELSE <<GreeksOf(S, K, r, T, sigma, isCall)>>

\* CalculateGreeks(S, K, r, T, sigma, isCall): <<>> for nil, else <<g>> for
\* a pointer to the Greeks g
CalculateGreeks(S, K, r, T, sigma, isCall) ==
    IF FLe(T, 0) \/ FLe(sigma, 0) THEN <<>>
    ELSE <<GreeksOf(S, K, r, T, sigma, isCall)>>

\* ------------------------------------- CalculateGreeks and blackScholesPrice

\* The two functions are called with arguments of either sign, T and sigma
\* also with NaN.
InitGreeks ==
    /\ gArgs \in [S : {-100 * FP, 0, 150 * FP},
                  K : {100 * FP, 150 * FP},
                  r : {-100, 500},
                  T : {NaN, NegInf, -FP, 0, 1, FP \div 4, FP},
                  sigma : {NaN, -1000, 0, 10, FP \div 4, 5 * FP},
                  isCall : BOOLEAN]
    /\ gFn = "none"
    /\ gGreeks = <<>>
    /\ gPrice = 0
    /\ o = NoChain
    /\ riskFreeRate = 0
    /\ wallClock = 0
    /\ wpc = "idle"
    /\ wi = 0
    /\ optT = 0
    /\ wresult = NoChain
    /\ ivArgs = [marketPrice |-> 0, S |-> 0, K |-> 0, r |-> 0, T |-> 0,
                 isCall |-> FALSE]
    /\ ivSigma = 0
    /\ iter = 0
    /\ evals = 0
    /\ ivpc = "idle"
    /\ ivRet = 0
    /\ LimiterIdle
    /\ config = NoConfig
    /\ RetryIdle
    /\ BackoffIdle
    /\ ClientIdle
    /\ SvcIdle

\* CalculateGreeks is called and returns.
GreeksReturn ==
    /\ gFn = "none"
    /\ gFn' = "CalculateGreeks"
    /\ gGreeks' = CalculateGreeks(gArgs.S, gArgs.K, gArgs.r, gArgs.T,
                                  gArgs.sigma, gArgs.isCall)
    /\ UNCHANGED <<gArgs, gPrice, chainVars, ivVars>>
    /\ UNCHANGED <<limVars, retryVars, cbVars, clientVars, svcVars>>

\* blackScholesPrice is called and returns.
PriceReturn ==
    /\ gFn = "none"
    /\ gFn' = "blackScholesPrice"
    /\ gPrice' = blackScholesPrice(gArgs.S, gArgs.K, gArgs.r, gArgs.T,
                                   gArgs.sigma, gArgs.isCall)
    /\ UNCHANGED <<gArgs, gGreeks, chainVars, ivVars>>
    /\ UNCHANGED <<limVars, retryVars, cbVars, clientVars, svcVars>>

NextGreeks == GreeksReturn \/ PriceReturn

SpecGreeks == InitGreeks /\ [][NextGreeks]_vars

\* --------------------------------------- OptionChain.WithGreeks (greeks.go)

\* unixNow(): a placeholder that returns 1e9 whatever the clock shows
unixNow == 1000000000

\* 365.25 * 24 * 60 * 60
YearSeconds == 31557600

\* T = 0.0001
MinT == FP \div 10000

\* The zero OptionWithGreeks, which make() fills with.  Of an Option only
\* the fields that CalculateOptionGreeks reads are kept.
NoOptionWithGreeks ==
    [Option |-> [Strike |-> 0, Expiration |-> 0, ImpliedVolatility |-> 0],
     Greeks |-> <<>>]

\* The slices of at most n contracts: one that expires a year after
\* unixNow(), one that expired before it, and one with no implied
\* volatility.
RECURSIVE ContractSeqs(_)
ContractSeqs(n) ==
    LET Contracts ==
            { [Strike |-> 100 * FP, Expiration |-> 1031557600,
               ImpliedVolatility |-> FP \div 4],
              [Strike |-> 150 * FP, Expiration |-> 999000000,
               ImpliedVolatility |-> (3 * FP) \div 10],
              [Strike |-> 150 * FP, Expiration |-> 1831557600,
               ImpliedVolatility |-> 0] }
    IN  IF n = 0 THEN {<<>>}
        ELSE ContractSeqs(n - 1)
                 \cup {Append(s, c) : s \in ContractSeqs(n - 1),
                                      c \in Contracts}

\* The T of CalculateOptionGreeks: lines 79-85.
TimeToExpiry(opt) ==
    LET expiry == opt.Expiration
        T == FDiv(expiry - unixNow, YearSeconds)
    IN  IF FLe(T, 0) THEN MinT ELSE T

\* CalculateOptionGreeks(opt, underlyingPrice, riskFreeRate, isCall)
CalculateOptionGreeks(opt, underlyingPrice, rate, isCall) ==
    [Option |-> opt,
     Greeks |-> CalculateGreeks(underlyingPrice, opt.Strike, rate,
                                TimeToExpiry(opt), opt.ImpliedVolatility,
                                isCall)]

\* A store that leaves out a contract without Greeks.
StoreUnlessNil(s, i, owg) ==
    IF owg.Greeks = <<>> THEN s ELSE [s EXCEPT ![i] = owg]

\* result.Calls[i] = *owg, with i counted from 1
Store(s, i, owg) == [s EXCEPT ![i] = owg]

InitChain ==
    /\ o \in [Symbol : {"AAPL"}, UnderlyingPrice : {150 * FP},
              ExpirationDates : {<<1031557600>>},
              Strikes : {<<100 * FP, 150 * FP>>},
              Calls : ContractSeqs(MaxContracts),
              Puts : ContractSeqs(MaxContracts)]
    /\ riskFreeRate = 500
    /\ wallClock \in {unixNow, 1800000000}
    /\ wpc = "idle"
    /\ wi = 0
    /\ optT = 0
    /\ wresult = NoChain
    /\ gArgs = [S |-> 0, K |-> 0, r |-> 0, T |-> 0, sigma |-> 0,
                isCall |-> FALSE]
    /\ gFn = "none"
    /\ gGreeks = <<>>
    /\ gPrice = 0
    /\ ivArgs = [marketPrice |-> 0, S |-> 0, K |-> 0, r |-> 0, T |-> 0,
                 isCall |-> FALSE]
    /\ ivSigma = 0
    /\ iter = 0
    /\ evals = 0
    /\ ivpc = "idle"
    /\ ivRet = 0
    /\ LimiterIdle
    /\ config = NoConfig
    /\ RetryIdle
    /\ BackoffIdle
    /\ ClientIdle
    /\ SvcIdle

\* WithGreeks is called and allocates result: lines 104-111.
WithGreeksCall ==
    /\ wpc = "idle"
    /\ wresult' = [Symbol |-> o.Symbol,
                   UnderlyingPrice |-> o.UnderlyingPrice,
                   ExpirationDates |-> o.ExpirationDates,
                   Strikes |-> o.Strikes,
                   Calls |-> [i \in 1..Len(o.Calls) |-> NoOptionWithGreeks],
                   Puts |-> [i \in 1..Len(o.Puts) |-> NoOptionWithGreeks]]
    /\ wpc' = "calls"
    /\ wi' = 1
    /\ UNCHANGED <<o, riskFreeRate, wallClock, optT>>
    /\ UNCHANGED <<limVars, retryVars, cbVars, clientVars, svcVars,
                 fnVars, ivVars>>

\* One pass of the loop over o.Calls: lines 113-116.
CallsStep ==
    /\ wpc = "calls"
    /\ wi <= Len(o.Calls)
    /\ LET call == o.Calls[wi]
           owg == CalculateOptionGreeks(call, o.UnderlyingPrice,
                                        riskFreeRate, TRUE)
       IN  /\ wresult' = [wresult EXCEPT !.Calls = Store(@, wi, owg)]
           /\ optT' = TimeToExpiry(call)
    /\ wi' = wi + 1
    /\ UNCHANGED <<o, riskFreeRate, wallClock, wpc>>
    /\ UNCHANGED <<limVars, retryVars, cbVars, clientVars, svcVars,
                 fnVars, ivVars>>

\* The loop over o.Calls ends and the one over o.Puts begins.
CallsDone ==
    /\ wpc = "calls"
    /\ wi > Len(o.Calls)
    /\ wpc' = "puts"
    /\ wi' = 1
    /\ UNCHANGED <<o, riskFreeRate, wallClock, optT, wresult>>
    /\ UNCHANGED <<limVars, retryVars, cbVars, clientVars, svcVars,
                 fnVars, ivVars>>

\* One pass of the loop over o.Puts: lines 118-121.
PutsStep ==
    /\ wpc = "puts"
    /\ wi <= Len(o.Puts)
    /\ LET put == o.Puts[wi]
           owg == CalculateOptionGreeks(put, o.UnderlyingPrice,
                                        riskFreeRate, FALSE)
       IN  /\ wresult' = [wresult EXCEPT !.Puts = Store(@, wi, owg)]
           /\ optT' = TimeToExpiry(put)
    /\ wi' = wi + 1
    /\ UNCHANGED <<o, riskFreeRate, wallClock, wpc>>
    /\ UNCHANGED <<limVars, retryVars, cbVars, clientVars, svcVars,
                 fnVars, ivVars>>

\* The loop over o.Puts ends and WithGreeks returns result: line 123.
WithGreeksReturn ==
    /\ wpc = "puts"
    /\ wi > Len(o.Puts)
    /\ wpc' = "done"
    /\ UNCHANGED <<o, riskFreeRate, wallClock, wi, optT, wresult>>
    /\ UNCHANGED <<limVars, retryVars, cbVars, clientVars, svcVars,
                 fnVars, ivVars>>

NextChain ==
    \/ WithGreeksCall
    \/ CallsStep
    \/ CallsDone
    \/ PutsStep
    \/ WithGreeksReturn

SpecChain == InitChain /\ [][NextChain]_vars

\* ------------------------------------------- ImpliedVolatility (greeks.go)

\* const maxIterations = 100
maxIterations == 100

\* const tolerance = 0.0001
tolerance == FP \div 10000

\* sigma := 0.3, and the ends 0.001 and 5 of the range sigma is kept in
InitialGuess == (3 * FP) \div 10

MinSigma == FP \div 1000

MaxSigma == 5 * FP

\* An update that is not brought back into the range.
Unclamped(s) == s

\* Lines 171-176: neither comparison holds of a NaN.
Clamp(s) ==
    LET raised == IF FLt(s, MinSigma) THEN MinSigma ELSE s
    IN  IF FLt(MaxSigma, raised) THEN MaxSigma ELSE raised

\* The market prices the solver is given: nothing, the prices of an
\* at-the-money call at a volatility of 0.25 and of 1.0, and one that no
\* volatility reaches.
InitIV ==
    /\ ivArgs \in [marketPrice :
                       {0,
                        blackScholesPrice(150 * FP, 150 * FP, 500, FP \div 4,
                                          FP \div 4, TRUE),
                        blackScholesPrice(150 * FP, 150 * FP, 500, FP \div 4,
                                          FP, TRUE),
                        blackScholesPrice(150 * FP, 100 * FP, 500, FP \div 4,
                                          FP, TRUE),
                        500 * FP},
                   S : {-100 * FP, 150 * FP},
                   K : {100 * FP, 150 * FP}, r : {500},
                   T : {0, FP \div 4, FP}, isCall : BOOLEAN]
    /\ ivSigma = 0
    /\ iter = 0
    /\ evals = 0
    /\ ivpc = "idle"
    /\ ivRet = 0
    /\ gArgs = [S |-> 0, K |-> 0, r |-> 0, T |-> 0, sigma |-> 0,
                isCall |-> FALSE]
    /\ gFn = "none"
    /\ gGreeks = <<>>
    /\ gPrice = 0
    /\ o = NoChain
    /\ riskFreeRate = 0
    /\ wallClock = 0
    /\ wpc = "idle"
    /\ wi = 0
    /\ optT = 0
    /\ wresult = NoChain
    /\ LimiterIdle
    /\ config = NoConfig
    /\ RetryIdle
    /\ BackoffIdle
    /\ ClientIdle
    /\ SvcIdle

\* ImpliedVolatility is called: line 155.
IVCall ==
    /\ ivpc = "idle"
    /\ ivSigma' = InitialGuess
    /\ iter' = 0
    /\ ivpc' = "loop"
    /\ UNCHANGED <<ivArgs, evals, ivRet>>
    /\ UNCHANGED <<limVars, retryVars, cbVars, clientVars, svcVars,
                 fnVars, chainVars>>

\* One pass of the loop, lines 158-176: the pricer and the vega are
\* evaluated; a vega of 0 leaves the loop for the return of line 179, a
\* difference within the tolerance returns, and otherwise sigma is updated
\* and clamped.
IVIterate ==
    /\ ivpc = "loop"
    /\ iter < maxIterations
    /\ evals' = evals + 1
    /\ LET price == blackScholesPrice(ivArgs.S, ivArgs.K, ivArgs.r, ivArgs.T,
                                      ivSigma, ivArgs.isCall)
           vega == blackScholesVega(ivArgs.S, ivArgs.K, ivArgs.r, ivArgs.T,
                                    ivSigma)
           diff == FSub(ivArgs.marketPrice, price)
       IN  IF vega = 0 \/ (FLt(diff, tolerance) /\ FLt(FNeg(diff), tolerance))
           THEN /\ ivpc' = "done"
                /\ ivRet' = ivSigma
                /\ UNCHANGED <<ivSigma, iter>>
           ELSE /\ ivSigma' = Clamp(FAdd(ivSigma, FDiv(diff, vega)))
                /\ iter' = iter + 1
                /\ UNCHANGED <<ivpc, ivRet>>
    /\ UNCHANGED ivArgs
    /\ UNCHANGED <<limVars, retryVars, cbVars, clientVars, svcVars,
                 fnVars, chainVars>>

\* The loop has run maxIterations times: the return of line 179.
IVExhausted ==
    /\ ivpc = "loop"
    /\ iter >= maxIterations
    /\ ivpc' = "done"
    /\ ivRet' = ivSigma
    /\ UNCHANGED <<ivArgs, ivSigma, iter, evals>>
    /\ UNCHANGED <<limVars, retryVars, cbVars, clientVars, svcVars,
                 fnVars, chainVars>>

NextIV == IVCall \/ IVIterate \/ IVExhausted

SpecIV == InitIV /\ [][NextIV]_vars

\* ------------------------------------------------------------------ Cache
\* cache.go.  Get, Set, Delete and Clear are called one after another by
\* one caller while the clock advances.

MaxClock == 2           \* the cache's clock stops at MaxClock
MaxTTL == 1             \* Set's ttl is drawn from 0..MaxTTL
MaxDefaultTTL == 3      \* CacheConfig.DefaultTTL is drawn from 1..MaxDefaultTTL
MaxMaxSize == 1         \* CacheConfig.MaxSize is drawn from 1..MaxMaxSize

\* m[key] = e, and delete(m, key).
Put(m, key, e) ==
    [k \in DOMAIN m \cup {key} |-> IF k = key THEN e ELSE m[k]]

Deleted(m, key) == [k \in DOMAIN m \ {key} |-> m[k]]

\* evictOldest's range loop over the keys in the order `order`, from its
\* i-th key on: the oldestKey it ends with.
RECURSIVE Oldest(_, _, _, _, _)
Oldest(m, order, i, oldestKey, oldestTime) ==
    IF i > Len(order) THEN oldestKey
    ELSE IF oldestKey = "" \/ m[order[i]] < oldestTime
         THEN Oldest(m, order, i + 1, order[i], m[order[i]])
         ELSE Oldest(m, order, i + 1, oldestKey, oldestTime)

\* evictOldest: the maps it can leave.  A Go map is ranged over in an
\* unspecified order.
evictOldest(m) ==
    { IF Oldest(m, order, 1, "", 0) # ""
          THEN Deleted(m, Oldest(m, order, 1, "", 0))
          ELSE m :
      order \in { s \in [1..Cardinality(DOMAIN m) -> DOMAIN m] :
                    \A i, j \in DOMAIN s : i # j => s[i] # s[j] } }

\* NewCache(config).
InitCache ==
    /\ cache \in [Type : {"Memory", "Disk", "Both"},
                  DefaultTTL : 1..MaxDefaultTTL, MaxSize : 1..MaxMaxSize,
                  memory : {NoEntries}, enabled : {TRUE}]
    /\ files = NoEntries
    /\ cnow = 0
    /\ cobs = [asked |-> NoEntries, got |-> <<>>]
    /\ DownloadIdle
    /\ StreamIdle
    /\ LimiterIdle
    /\ config = NoConfig
    /\ RetryIdle
    /\ BackoffIdle
    /\ ClientIdle
    /\ PricingIdle

\* Time passes.
CacheTick ==
    /\ cnow < MaxClock
    /\ cnow' = cnow + 1
    /\ UNCHANGED <<cache, files, cobs>>
    /\ UNCHANGED notCacheVars

\* EnableCache(enabled) on this cache.
EnableCache(enabled) ==
    /\ cache' = [cache EXCEPT !.enabled = enabled]
    /\ UNCHANGED <<files, cnow, cobs>>
    /\ UNCHANGED notCacheVars

\* c.Set(key, data, ttl).
CacheSet(key, ttl) ==
    /\ cache.enabled
    /\ LET expiresAt == cnow + (IF ttl = 0 THEN cache.DefaultTTL ELSE ttl)
       IN  /\ IF cache.Type \in {"Memory", "Both"}
                 THEN \E m \in (IF Cardinality(DOMAIN cache.memory)
                                       >= cache.MaxSize
                                    THEN evictOldest(cache.memory)
                                    ELSE {cache.memory}) :
                          cache' = [cache EXCEPT
                                        !.memory = Put(m, key, expiresAt)]
                 ELSE UNCHANGED cache
           /\ files' = IF cache.Type \in {"Disk", "Both"}
                           THEN Put(files, key, expiresAt)
                           ELSE files
           /\ cobs' = [cobs EXCEPT
                           !.asked = Put(cobs.asked, key, expiresAt)]
    /\ UNCHANGED cnow
    /\ UNCHANGED notCacheVars

\* getFromDisk(key): whether it finds the entry.
getFromDisk(key) == key \in DOMAIN files /\ ~(cnow > files[key])

\* c.Get(key).
CacheGet(key) ==
    /\ cache.enabled
    /\ IF /\ cache.Type \in {"Memory", "Both"}
          /\ key \in DOMAIN cache.memory
          /\ cnow < cache.memory[key]
          THEN /\ cobs' = [cobs EXCEPT !.got = <<key, TRUE, cnow>>]
               /\ UNCHANGED <<cache, files>>
          ELSE IF cache.Type \in {"Disk", "Both"}
          THEN /\ files' = IF key \in DOMAIN files /\ cnow > files[key]
                               THEN Deleted(files, key)
                               ELSE files
               /\ cache' = IF getFromDisk(key) /\ cache.Type = "Both"
                               THEN [cache EXCEPT !.memory =
                                        Put(@, key, cnow + cache.DefaultTTL)]
                               ELSE cache
               /\ cobs' = [cobs EXCEPT
                               !.got = <<key, getFromDisk(key), cnow>>]
          ELSE /\ cobs' = [cobs EXCEPT !.got = <<key, FALSE, cnow>>]
               /\ UNCHANGED <<cache, files>>
    /\ UNCHANGED cnow
    /\ UNCHANGED notCacheVars

\* c.Get(key) and c.Set(key, data, ttl) on a disabled cache.
CacheOff(key) ==
    /\ ~cache.enabled
    /\ \/ cobs' = [cobs EXCEPT !.got = <<key, FALSE, cnow>>]
       \/ cobs' = cobs
    /\ UNCHANGED <<cache, files, cnow>>
    /\ UNCHANGED notCacheVars

\* c.Delete(key).
CacheDelete(key) ==
    /\ cache' = [cache EXCEPT !.memory = Deleted(@, key)]
    /\ files' = IF cache.Type \in {"Disk", "Both"}
                    THEN Deleted(files, key)
                    ELSE files
    /\ UNCHANGED <<cnow, cobs>>
    /\ UNCHANGED notCacheVars

\* c.Clear().
CacheClear ==
    /\ cache' = [cache EXCEPT !.memory = NoEntries]
    /\ files' = IF cache.Type \in {"Disk", "Both"} THEN NoEntries ELSE files
    /\ UNCHANGED <<cnow, cobs>>
    /\ UNCHANGED notCacheVars

NextCache ==
    \/ CacheTick
    \/ \E enabled \in BOOLEAN : EnableCache(enabled)
    \/ \E key \in Keys, ttl \in 0..MaxTTL : CacheSet(key, ttl)
    \/ \E key \in Keys : CacheGet(key)
    \/ \E key \in Keys : CacheOff(key)
    \/ \E key \in Keys : CacheDelete(key)
    \/ CacheClear

SpecCache == InitCache /\ [][NextCache]_vars

\* --------------------------------------------------------------- Download
\* download.go:29-96.  dl.Symbols is len(params.Symbols); symbol number g is
\* downloaded by goroutine g, whose position is dl.gpc[g].

MaxThreads == 2         \* params.Threads is drawn from -1..MaxThreads
MaxSymbols == 3         \* len(params.Symbols) is drawn from 0..MaxSymbols
DefaultThreads == 5     \* params.Threads when the caller gives none

\* cap(sem): params.Threads after the default is applied.
SemCap == IF dl.Threads <= 0 THEN DefaultThreads ELSE dl.Threads

InitDownload ==
    /\ dl \in {NoDownload(threads, n) :
                   threads \in -1..MaxThreads, n \in 0..MaxSymbols}
    /\ CacheIdle
    /\ StreamIdle
    /\ LimiterIdle
    /\ config = NoConfig
    /\ RetryIdle
    /\ BackoffIdle
    /\ ClientIdle
    /\ PricingIdle

\* what Download does not touch
notDownloadVars ==
    <<limVars, retryVars, cbVars, clientVars, pricingVars, cacheVars, stream>>

\* Download is called: with no symbol, or when getDefaultClient fails, it
\* returns an error at once; otherwise it enters the range loop.
DownloadCall(clientErr) ==
    /\ dl.mpc = "idle"
    /\ dl' = IF dl.Symbols = 0
                 THEN [dl EXCEPT !.mpc = "returned",
                                 !.ret = "ErrInvalidSymbol"]
             ELSE IF clientErr
                 THEN [dl EXCEPT !.mpc = "returned", !.ret = "err"]
             ELSE [dl EXCEPT !.mpc = "loop"]
    /\ UNCHANGED notDownloadVars

\* One pass of the range loop: wg.Add(1) and the go statement.
Spawn ==
    /\ dl.mpc = "loop"
    /\ Len(dl.gpc) < dl.Symbols
    /\ dl' = [dl EXCEPT !.wg = @ + 1, !.gpc = Append(@, "start")]
    /\ UNCHANGED notDownloadVars

\* The range loop is over; the caller is at wg.Wait().
LoopOver ==
    /\ dl.mpc = "loop"
    /\ Len(dl.gpc) = dl.Symbols
    /\ dl' = [dl EXCEPT !.mpc = "wait"]
    /\ UNCHANGED notDownloadVars

\* sem <- struct{}{} with the semaphore always open.
AcquireUnbounded(g) ==
    /\ dl.gpc[g] = "start"
    /\ dl' = [dl EXCEPT !.sem = @ + 1, !.gpc[g] = "acquired"]
    /\ UNCHANGED notDownloadVars

\* sem <- struct{}{}: goroutine g acquires the semaphore when it has room.
Acquire(g) ==
    /\ dl.gpc[g] = "start"
    /\ dl.sem < SemCap
    /\ dl' = [dl EXCEPT !.sem = @ + 1, !.gpc[g] = "acquired"]
    /\ UNCHANGED notDownloadVars

\* NewTicker fails: the error is recorded under mu and g returns.
TickerFails(g) ==
    /\ dl.gpc[g] = "acquired"
    /\ dl' = [dl EXCEPT !.Errors = @ \cup {g}, !.gpc[g] = "release"]
    /\ UNCHANGED notDownloadVars

\* NewTicker succeeds and g calls ticker.History.
HistoryCall(g) ==
    /\ dl.gpc[g] = "acquired"
    /\ dl' = [dl EXCEPT !.gpc[g] = "history"]
    /\ UNCHANGED notDownloadVars

\* ticker.History returns; its data or its error is recorded under mu.
HistoryReturn(g, ok) ==
    /\ dl.gpc[g] = "history"
    /\ dl' = IF ok
                 THEN [dl EXCEPT !.Data = @ \cup {g}, !.gpc[g] = "release"]
                 ELSE [dl EXCEPT !.Errors = @ \cup {g},
                                 !.gpc[g] = "release"]
    /\ UNCHANGED notDownloadVars

\* The deferred <-sem.
Release(g) ==
    /\ dl.gpc[g] = "release"
    /\ dl' = [dl EXCEPT !.sem = @ - 1, !.gpc[g] = "exit"]
    /\ UNCHANGED notDownloadVars

\* The deferred wg.Done(), after which g is over.
Done(g) ==
    /\ dl.gpc[g] = "exit"
    /\ dl' = [dl EXCEPT !.wg = @ - 1, !.gpc[g] = "done"]
    /\ UNCHANGED notDownloadVars

\* wg.Wait() returns once the counter is zero, and Download returns result.
DownloadReturn ==
    /\ dl.mpc = "wait"
    /\ dl.wg = 0
    /\ dl' = [dl EXCEPT !.mpc = "returned", !.ret = "result"]
    /\ UNCHANGED notDownloadVars

NextDownload ==
    \/ \E clientErr \in BOOLEAN : DownloadCall(clientErr)
    \/ Spawn
    \/ LoopOver
    \/ \E g \in DOMAIN dl.gpc : Acquire(g)
    \/ \E g \in DOMAIN dl.gpc : TickerFails(g)
    \/ \E g \in DOMAIN dl.gpc : HistoryCall(g)
    \/ \E g \in DOMAIN dl.gpc, ok \in BOOLEAN : HistoryReturn(g, ok)
    \/ \E g \in DOMAIN dl.gpc : Release(g)
    \/ \E g \in DOMAIN dl.gpc : Done(g)
    \/ DownloadReturn

SpecDownload == InitDownload /\ [][NextDownload]_vars

\* ----------------------------------------------------------------- Stream
\* The second file of modules.go (lines 158-404).  Connect and Close hold
\* s.mu from their first line to their last, so each is one step; a read
\* loop runs one statement at a time.

MaxConnects == 2        \* connections dialled on the one Stream
MessagesCap == 2        \* cap(s.messages), 100 in NewStream
ErrorsCap == 2          \* cap(s.errors), 10 in NewStream

InitStream ==
    /\ stream \in {NewStream(hasSymbols) : hasSymbols \in BOOLEAN}
    /\ CacheIdle
    /\ DownloadIdle
    /\ LimiterIdle
    /\ config = NoConfig
    /\ RetryIdle
    /\ BackoffIdle
    /\ ClientIdle
    /\ PricingIdle

\* what the Stream does not touch
notStreamVars ==
    <<limVars, retryVars, cbVars, clientVars, pricingVars, cacheVars, dl>>

\* s.IsConnected()
IsConnected == stream.running

\* close(ch) of a channel closed n times before: a second close panics.
Closes(n) == n + 1

\* s.Connect(ctx) on a Stream that is not running: the dial fails, or the
\* subscription fails and the new connection is closed, or the read loop is
\* started.  On a running Stream Connect returns nil and changes nothing.
Connect(dialOk, subscribeOk) ==
    /\ ~stream.panic
    /\ ~stream.running
    /\ Len(stream.conns) < MaxConnects
    /\ stream' =
         IF ~dialOk THEN stream
         ELSE IF stream.hasSymbols /\ ~subscribeOk
         THEN [stream EXCEPT !.conn = Len(stream.conns) + 1,
                             !.conns = Append(@, FALSE)]
         ELSE [stream EXCEPT !.conn = Len(stream.conns) + 1,
                             !.conns = Append(@, TRUE),
                             !.running = TRUE,
                             !.loops = Append(@, [pc |-> "select",
                                                  conn |-> 0])]
    /\ UNCHANGED notStreamVars

\* s.Close() on a running Stream; on any other it returns nil and changes
\* nothing.
Close ==
    /\ ~stream.panic
    /\ stream.running
    /\ stream' =
         IF Closes(stream.done) > 1
         THEN [stream EXCEPT !.done = Closes(@), !.panic = TRUE]
         ELSE [stream EXCEPT !.done = Closes(@), !.running = FALSE,
                             !.conns[stream.conn] = FALSE]
    /\ UNCHANGED notStreamVars

\* The outer select of readLoop: return when s.done is closed, else call
\* s.conn.ReadMessage().
LoopSelect(g) ==
    /\ ~stream.panic
    /\ stream.loops[g].pc = "select"
    /\ stream' =
         IF stream.done > 0
         THEN [stream EXCEPT !.loops[g].pc = "closeMessages"]
         ELSE [stream EXCEPT !.loops[g] = [pc |-> "read",
                                           conn |-> stream.conn]]
    /\ UNCHANGED notStreamVars

\* ReadMessage returns: an error (the only outcome on a closed connection),
\* data that does not parse, or a message, which is sent to s.messages if
\* there is room and dropped if not.
ReadMessage(g, outcome) ==
    /\ ~stream.panic
    /\ stream.loops[g].pc = "read"
    /\ stream.conns[stream.loops[g].conn] \/ outcome = "err"
    /\ stream' =
         IF outcome = "err"
         THEN [stream EXCEPT !.loops[g].pc = "sendErrReturn"]
         ELSE IF outcome = "bad"
         THEN [stream EXCEPT !.loops[g].pc = "sendErrContinue"]
         ELSE IF stream.mcloses > 0
         THEN [stream EXCEPT !.panic = TRUE]
         ELSE [stream EXCEPT !.loops[g].pc = "select",
                             !.mlen = IF @ < MessagesCap THEN @ + 1 ELSE @]
    /\ UNCHANGED notStreamVars

\* s.errors <- err, a send that waits for room in the channel and panics on
\* a closed one; then return (line 311) or continue (line 317).
SendErr(g) ==
    /\ ~stream.panic
    /\ stream.loops[g].pc \in {"sendErrReturn", "sendErrContinue"}
    /\ stream.ecloses > 0 \/ stream.elen < ErrorsCap
    /\ stream' =
         IF stream.ecloses > 0
         THEN [stream EXCEPT !.panic = TRUE]
         ELSE [stream EXCEPT
                   !.elen = @ + 1,
                   !.loops[g].pc =
                       IF stream.loops[g].pc = "sendErrReturn"
                       THEN "closeMessages" ELSE "select"]
    /\ UNCHANGED notStreamVars

\* The deferred close(s.messages).
CloseMessages(g) ==
    /\ ~stream.panic
    /\ stream.loops[g].pc = "closeMessages"
    /\ stream' =
         [stream EXCEPT !.mcloses = Closes(@),
                        !.panic = Closes(stream.mcloses) > 1,
                        !.loops[g].pc = IF Closes(stream.mcloses) > 1
                                        THEN @ ELSE "closeErrors"]
    /\ UNCHANGED notStreamVars

\* The deferred close(s.errors), after which the read loop is over.
CloseErrors(g) ==
    /\ ~stream.panic
    /\ stream.loops[g].pc = "closeErrors"
    /\ stream' =
         [stream EXCEPT !.ecloses = Closes(@),
                        !.panic = Closes(stream.ecloses) > 1,
                        !.loops[g].pc = IF Closes(stream.ecloses) > 1
                                        THEN @ ELSE "exited"]
    /\ UNCHANGED notStreamVars

\* A consumer receives from Messages(), or from Errors().
RecvMessage ==
    /\ ~stream.panic
    /\ stream.mlen > 0
    /\ stream' = [stream EXCEPT !.mlen = @ - 1]
    /\ UNCHANGED notStreamVars

RecvError ==
    /\ ~stream.panic
    /\ stream.elen > 0
    /\ stream' = [stream EXCEPT !.elen = @ - 1]
    /\ UNCHANGED notStreamVars

\* One statement of read loop g.
LoopStep(g) ==
    /\ g \in DOMAIN stream.loops
    /\ \/ LoopSelect(g)
       \/ \E outcome \in {"msg", "bad", "err"} : ReadMessage(g, outcome)
       \/ SendErr(g)
       \/ CloseMessages(g)
       \/ CloseErrors(g)

NextStream ==
    \/ \E dialOk, subscribeOk \in BOOLEAN : Connect(dialOk, subscribeOk)
    \/ Close
    \/ \E g \in 1..MaxConnects : LoopStep(g)
    \/ RecvMessage
    \/ RecvError

SpecStream == InitStream /\ [][NextStream]_vars

\* The scheduler runs every goroutine that can take a step, and a
\* ReadMessage on a closed connection returns; nothing makes a consumer
\* receive or a caller call.
LiveStream ==
    SpecStream /\ \A g \in 1..MaxConnects : WF_vars(LoopStep(g))

\* ----------------------------------------------------------------- claims
burst == maxTokens \div TokenUnit

Suspended(g) == pc[g] \in {"timer", "poll", "parked", "ctxWoken"}

\* C1 (as claimed): with several goroutines in Wait, the token count never
\* drops below 0 and no more Wait calls succeed than there are tokens: the
\* initial burst plus what the refill rate can have credited by now.
C1_NoDoubleSpend ==
    /\ tokens >= 0
    /\ succ * TokenUnit <= maxTokens + refillRate * now

\* C2: with one caller the token count never exceeds maxTokens, and after
\* a successful Wait it is not negative.
C2_TokensBounded ==
    /\ tokens <= maxTokens
    /\ (pc[1] = "idle" /\ ret[1] = "nil") => tokens >= 0

\* A successful Wait that left the bucket empty, after refills that had to
\* be capped at maxTokens.
C2_Witness ==
    /\ pc[1] = "idle" /\ ret[1] = "nil"
    /\ tokens = 0
    /\ succ > burst
    /\ refillRate * lastRefillTime > maxTokens

\* C3: a cancellation that arrives while Wait is parked in the select wakes
\* it on the ctx case, and from there Wait returns ctx.Err() with the token
\* count and the number of acquisitions unchanged.
C3_CancelNoSpend ==
    [][/\ (pc[1] = "parked" /\ ~ctxDone[1] /\ ctxDone'[1])
           => (pc'[1] = "ctxWoken" /\ tokens' = tokens)
       /\ (pc[1] = "ctxWoken")
           => /\ tokens' = tokens
              /\ succ' = succ
              /\ pc'[1] \in {"ctxWoken", "idle"}
              /\ (pc'[1] = "idle" => ret'[1] = "ctxErr")]_vars

\* Wait was parked short of a token when its ctx was cancelled.
C3_Witness == pc[1] = "ctxWoken" /\ ~HasToken(tokens) /\ now < wake[1]

\* C4: the first `burst` Waits on a fresh limiter never suspend and never
\* fail; the next Wait, at the instant of creation, parks for
\* (1 - tokens)/rate (truncated to ticks) without an error, and succeeds
\* only once the clock has credited the missing token.
C4_BurstThenWait ==
    /\ succ < burst => (~Suspended(1) /\ ret[1] # "ctxErr")
    /\ (now = 0 /\ pc[1] = "parked")
         => /\ succ = burst
            /\ wake[1] - now = Trunc(TokenUnit - tokens, refillRate)
            /\ wake[1] > now
    /\ ret[1] = "ctxErr" => ctxDone[1]
    /\ succ > burst => refillRate * now >= TokenUnit

\* The Wait after the burst is parked at the instant of creation.
C4_Witness == burst >= 1 /\ now = 0 /\ succ = burst /\ pc[1] = "parked"

\* C5: with burst >= 1, a Wait whose ctx is not cancelled returns nil in
\* the end, and the step that returns nil takes exactly one token off the
\* refilled count.
C5_WaitSucceeds ==
    /\ (burst >= 1 /\ pc[1] # "idle")
          ~> ((pc[1] = "idle" /\ ret[1] = "nil") \/ ctxDone[1])
    /\ [][(pc[1] # "idle" /\ pc'[1] = "idle" /\ ret'[1] = "nil")
           => tokens' = tokens - TokenUnit]_vars

\* A Wait beyond the burst, which had to wait for a refill, has returned nil.
C5_Witness == burst >= 1 /\ succ > burst /\ pc[1] = "idle" /\ ret[1] = "nil"

Last(q) == q[Len(q)]

AllTransport == \A i \in 1..Len(outs) : outs[i][1] = "transport"

AllRetryable ==
    \A i \in 1..Len(outs) :
        outs[i][1] = "status" /\ outs[i][2] \in config.RetryOnStatus

\* C6: as soon as an attempt is answered with a status outside
\* RetryOnStatus, doWithRetry has returned that response, unclosed and with
\* no error, having waited only before that attempt; on the first attempt
\* that is no retry and no wait.
C6_OtherStatusReturned ==
    (outs # <<>> /\ Last(outs)[1] = "status"
                /\ Last(outs)[2] \notin config.RetryOnStatus)
    => /\ rpc = "done"
       /\ result.err = NoErr
       /\ result.resp.status = Last(outs)[2]
       /\ ~result.resp.closed
       /\ nwaits = Len(outs) - 1
       /\ attempt = Len(outs) - 1
       /\ (Len(outs) = 1 => (attempt = 0 /\ nwaits = 0))

\* A 503 that the config does not retry comes back from the first attempt
\* although retries were available.
C6_Witness ==
    /\ rpc = "done"
    /\ config.MaxRetries >= 1
    /\ outs = << <<"status", 503>> >>
    /\ 503 \notin config.RetryOnStatus
    /\ result.resp.status = 503

\* C7: a call makes at most MaxRetries + 1 attempts, one at a time: a
\* request is in flight only when every earlier attempt has been answered
\* and the wait after it is over; the call ends, with a response or with
\* an error and never with both or neither.
C7_Sequential ==
    /\ inflight \in {0, 1}
    /\ Len(outs) + inflight <= config.MaxRetries + 1
    /\ inflight = 1 => (rpc = "do" /\ nwaits = Len(outs))
    /\ rpc = "done" => ((result.resp = NoResp) # (result.err = NoErr))

C7_BoundedSequential == []C7_Sequential /\ (rpc = "loop" ~> rpc = "done")

\* The last attempt the budget allows is in flight, after MaxRetries waits.
C7_Witness ==
    /\ config.MaxRetries >= 1
    /\ inflight = 1
    /\ Len(outs) = config.MaxRetries
    /\ nwaits = config.MaxRetries

\* C8: when every attempt failed in the transport and the call was not
\* cancelled, doWithRetry has made MaxRetries + 1 attempts with a wait
\* between them and returns no response and the error "request failed after
\* MaxRetries retries" wrapping the error of the last attempt.
C8_TransportExhausted ==
    (rpc = "done" /\ outs # <<>> /\ AllTransport /\ result.err # CtxErr)
    => /\ Len(outs) = config.MaxRetries + 1
       /\ nwaits = config.MaxRetries
       /\ result.resp = NoResp
       /\ result.err = Exhausted(config.MaxRetries, Last(outs))

\* Three attempts failed, the last with another error than the first.
C8_Witness ==
    /\ rpc = "done"
    /\ config.MaxRetries >= 1
    /\ Len(outs) = config.MaxRetries + 1
    /\ AllTransport
    /\ outs[1] # Last(outs)
    /\ result.err = Exhausted(config.MaxRetries, Last(outs))

\* C9 (as claimed): when all MaxRetries + 1 attempts were answered with a
\* retryable status, doWithRetry returns no response and the error that
\* names the number of retries, as it does when the transport kept failing.
C9_StatusExhausted ==
    (rpc = "done" /\ AllRetryable /\ Len(outs) = config.MaxRetries + 1)
    => /\ result.resp = NoResp
       /\ result.err[1] = "exhausted"
       /\ result.err[2] = config.MaxRetries

Clamped == Min(cbArgs.base, cbArgs.max)

\* C11 (as claimed): with jitter = 0 calculateBackoff returns exactly
\* c = min(base, max), and with jitter > 0 a value of the interval
\* [c - jitter*c, c + jitter*c].
C11_ClampThenInterval ==
    cbRet # <<>>
    => IF cbArgs.jitterNum = 0
       THEN cbRet[1] = Clamped
       ELSE /\ Clamped * (JitterDen - cbArgs.jitterNum) <= cbRet[1] * JitterDen
            /\ cbRet[1] * JitterDen <= Clamped * (JitterDen + cbArgs.jitterNum)

\* C11 (amended): with jitter = 0 calculateBackoff returns exactly
\* c = min(base, max); with jitter > 0 it returns a point of
\* [c - jitter*c, c + jitter*c] truncated to a whole Duration, which is at
\* least trunc(c - jitter*c) and at most c + jitter*c.
C11_ClampThenJitter ==
    cbRet # <<>>
    => IF cbArgs.jitterNum = 0
       THEN cbRet[1] = Clamped
       ELSE /\ Trunc(Clamped * (JitterDen - cbArgs.jitterNum), JitterDen)
                 <= cbRet[1]
            /\ cbRet[1] * JitterDen <= Clamped * (JitterDen + cbArgs.jitterNum)

\* A base above max was clamped and then perturbed upwards, beyond max.
C11_Witness ==
    /\ cbRet # <<>>
    /\ cbArgs.jitterNum > 0
    /\ cbArgs.base > cbArgs.max
    /\ cbRet[1] > cbArgs.max

RECURSIVE Pow(_, _)
Pow(b, n) == IF n = 0 THEN 1 ELSE b * Pow(b, n - 1)

\* b multiplied k times by FactorNum / FactorDen, truncated to a whole
\* Duration each time
RECURSIVE Multiplied(_, _)
Multiplied(b, k) ==
    IF k = 0 THEN b ELSE (Multiplied(b, k - 1) * config.FactorNum) \div FactorDen

Waiting == rpc \in {"waitErr", "waitStatus"}

\* C12 (as claimed): with BackoffFactor >= 1, the pre-jitter wait before
\* the k-th retry, min(backoff, MaxBackoff), equals
\* min(InitialBackoff * BackoffFactor^k, MaxBackoff).
C12_ExactGeometric ==
    (Waiting /\ config.FactorNum >= FactorDen)
    => Min(backoff, config.MaxBackoff) * Pow(FactorDen, nwaits)
         = Min(config.InitialBackoff * Pow(config.FactorNum, nwaits),
               config.MaxBackoff * Pow(FactorDen, nwaits))

\* C12 (amended): with BackoffFactor >= 1, while doWithRetry waits before
\* its k-th retry (k waits done, after k failed attempts of either kind) the
\* backoff is InitialBackoff multiplied k times by the factor, truncated to
\* a whole Duration each time; the wait after a transport error is that
\* backoff clamped to MaxBackoff and then perturbed by the jitter; and the
\* clamped backoff never decreases from one retry to the next.
C12_BackoffGrows ==
    /\ []((Waiting /\ config.FactorNum >= FactorDen)
           => /\ nwaits = attempt
              /\ nwaits = Len(outs) - 1
              /\ backoff = Multiplied(config.InitialBackoff, nwaits)
              /\ rpc = "waitErr"
                   => LET c == Min(backoff, config.MaxBackoff)
                      IN  /\ Trunc(c * (JitterDen - config.JitterNum),
                                   JitterDen) <= waitTime
                          /\ waitTime * JitterDen
                               <= c * (JitterDen + config.JitterNum))
    /\ [][(Waiting /\ rpc' = "loop" /\ config.FactorNum >= FactorDen)
            => Min(backoff', config.MaxBackoff)
                 >= Min(backoff, config.MaxBackoff)]_vars

\* The second retry, after a transport error and then a retryable status,
\* waits on a backoff that has grown.
C12_Witness ==
    /\ rpc = "waitStatus"
    /\ nwaits = 1
    /\ outs[1][1] = "transport"
    /\ config.FactorNum > FactorDen
    /\ backoff > config.InitialBackoff

\* C13: a cancellation that arrives while doWithRetry waits between two
\* attempts ends the call at once with no response and the ctx's error, not
\* the exhaustion error, and a call that has returned sends nothing more.
C13_CancelDuringWait ==
    [][/\ (Waiting /\ ~rctxDone /\ rctxDone')
           => /\ rpc' = "done"
              /\ result'.resp = NoResp
              /\ result'.err = CtxErr
              /\ result'.err[1] # "exhausted"
              /\ inflight' = 0
              /\ outs' = outs
       /\ rpc = "done"
           => /\ rpc' = "done"
              /\ result' = result
              /\ inflight' = inflight
              /\ outs' = outs]_vars

\* The call was cancelled in the wait after a retryable status, with
\* retries left, and returned the ctx's error.
C13_Witness ==
    /\ rpc = "done"
    /\ result.err = CtxErr
    /\ outs # <<>>
    /\ Last(outs)[1] = "status"
    /\ Len(outs) <= config.MaxRetries
    /\ nwaits = Len(outs) - 1

\* C14 (as claimed): every data request that Get or Post hands to the
\* upstream has a token acquired by RateLimiter.Wait before it, and is sent
\* by doWithRetry: while it is in flight doWithRetry is in its attempt, and
\* a retryable status is not handed back to the caller while the
\* RetryConfig has retries left.
C14_ThroughLimiterAndRetry ==
    /\ sent <= succ
    /\ \A g \in Procs :
         /\ cpc[g] = "await" => rpc = "do"
         /\ (cpc[g] = "idle" /\ cres[g] = "ErrRateLimited")
              => attempt >= config.MaxRetries

\* A number that is at most zero; NaN is not.
AtMostZero(x) == x # NaN /\ x <= 0

\* C15: CalculateGreeks returns nil exactly when T <= 0 or sigma <= 0; for
\* T > 0 and sigma > 0 it returns a Greeks value, for calls and for puts
\* and whatever S, K and r are.
C15_NilIffNotPositive ==
    gFn = "CalculateGreeks" =>
        /\ gGreeks = <<>> <=>
               (AtMostZero(gArgs.T) \/ AtMostZero(gArgs.sigma))
        /\ (gArgs.T # NaN /\ gArgs.T > 0
                /\ gArgs.sigma # NaN /\ gArgs.sigma > 0) =>
               /\ Len(gGreeks) = 1
               /\ DOMAIN gGreeks[1] =
                      {"Delta", "Gamma", "Theta", "Vega", "Rho"}

\* a put with T > 0 and sigma = 0 has no Greeks
C15_Witness ==
    /\ gFn = "CalculateGreeks"
    /\ ~gArgs.isCall
    /\ gArgs.T = FP
    /\ gArgs.sigma = 0
    /\ gGreeks = <<>>

\* C16: for T <= 0 blackScholesPrice returns the intrinsic value,
\* max(S-K, 0) for a call and max(K-S, 0) for a put, whatever r and sigma
\* are.
C16_IntrinsicAtExpiry ==
    (gFn = "blackScholesPrice" /\ AtMostZero(gArgs.T)) =>
        gPrice = IF gArgs.isCall
                 THEN (IF gArgs.S > gArgs.K THEN gArgs.S - gArgs.K ELSE 0)
                 ELSE (IF gArgs.K > gArgs.S THEN gArgs.K - gArgs.S ELSE 0)

\* an out-of-the-money call at expiry is worth 0
C16_Witness ==
    /\ gFn = "blackScholesPrice"
    /\ gArgs.isCall
    /\ gArgs.T = 0
    /\ gArgs.S < gArgs.K
    /\ gArgs.S # NaN
    /\ gPrice = 0

\* The Greeks of an output contract fit its input contract: absent when the
\* implied volatility is not positive, else a Delta on the side of a call
\* (0..1) or of a put (-1..0).
GreeksFit(owg, isCall) ==
    IF owg.Option.ImpliedVolatility <= 0 THEN owg.Greeks = <<>>
    ELSE /\ Len(owg.Greeks) = 1
         /\ owg.Greeks[1].Delta # NaN
         /\ IF isCall
            THEN owg.Greeks[1].Delta > 0 /\ owg.Greeks[1].Delta <= FP
            ELSE owg.Greeks[1].Delta < 0 /\ owg.Greeks[1].Delta >= -FP

\* C17: WithGreeks returns a parallel chain: Calls and Puts are as long as
\* the input's, the i-th output contract is the i-th input contract with
\* the Greeks computed for it as a call or as a put, and a contract without
\* Greeks does not stop the processing of the ones after it.
C17_ParallelChain ==
    wpc = "done" =>
        /\ Len(wresult.Calls) = Len(o.Calls)
        /\ Len(wresult.Puts) = Len(o.Puts)
        /\ \A i \in 1..Len(o.Calls) :
               /\ wresult.Calls[i].Option = o.Calls[i]
               /\ GreeksFit(wresult.Calls[i], TRUE)
        /\ \A i \in 1..Len(o.Puts) :
               /\ wresult.Puts[i].Option = o.Puts[i]
               /\ GreeksFit(wresult.Puts[i], FALSE)

\* a chain whose first call has no Greeks and whose second call has some
C17_Witness ==
    /\ wpc = "done"
    /\ Len(o.Calls) = 2
    /\ Len(o.Puts) > 0
    /\ wresult.Calls[1].Greeks = <<>>
    /\ wresult.Calls[2].Greeks # <<>>
    /\ wresult.Calls[2].Option = o.Calls[2]

\* The contract that the latest pass of a loop was about.
LatestContract == IF wpc = "calls" THEN o.Calls[wi - 1] ELSE o.Puts[wi - 1]

\* C18: CalculateOptionGreeks passes on a time to expiry of (expiration -
\* current time) / (365.25 days in seconds), the current time being the
\* clock at the call, and 0.0001 in its place when that is <= 0, so that an
\* expired contract with a positive implied volatility still gets Greeks.
C18_TimeFromClock ==
    (wpc \in {"calls", "puts"} /\ wi > 1) =>
        LET years == FDiv(LatestContract.Expiration - wallClock, YearSeconds)
            latest == IF wpc = "calls" THEN wresult.Calls[wi - 1]
                      ELSE wresult.Puts[wi - 1]
        IN  /\ optT = IF years <= 0 THEN MinT ELSE years
            /\ (years <= 0 /\ LatestContract.ImpliedVolatility > 0) =>
                   latest.Greeks # <<>>

\* C19: ImpliedVolatility never fails: for every input it ends after at
\* most 100 evaluations of the pricer and of the vega, and what it returns
\* is a number, whether or not the tolerance was met.
C19_NumericWithin100 ==
    /\ evals <= maxIterations
    /\ ivpc = "done" => (ivRet # NaN /\ ivRet # PosInf /\ ivRet # NegInf)

\* C20: in ImpliedVolatility sigma lies in [0.001, 5.0] after every Newton
\* update, the initial guess 0.3 included, and so does the value returned.
C20_SigmaInRange ==
    /\ ivpc \in {"loop", "done"} =>
           (ivSigma >= MinSigma /\ ivSigma <= MaxSigma)
    /\ ivpc = "done" => (ivRet >= MinSigma /\ ivRet <= MaxSigma)

\* C21: if the vega is exactly zero at the current sigma, ImpliedVolatility
\* stops and returns that sigma without updating it; for T <= 0, where the
\* vega is 0, it returns the initial guess 0.3 whatever the market price is.
C21_ZeroVegaStops ==
    /\ [](ivpc = "done" /\ AtMostZero(ivArgs.T) =>
              ivRet = InitialGuess /\ evals = 1)
    /\ [][(ivpc = "loop" /\ iter < maxIterations
               /\ blackScholesVega(ivArgs.S, ivArgs.K, ivArgs.r, ivArgs.T,
                                   ivSigma) = 0) =>
              (ivpc' = "done" /\ ivRet' = ivSigma /\ ivSigma' = ivSigma)]_vars

\* a call deep in the money priced at 0: the first update brings sigma down
\* to 0.001, where the vega is 0
C21_Witness ==
    /\ ivpc = "done"
    /\ ivArgs.T > 0
    /\ evals = 2
    /\ ivRet = MinSigma
    /\ blackScholesVega(ivArgs.S, ivArgs.K, ivArgs.r, ivArgs.T, ivRet) = 0


\* C22: pricing a call at a volatility sigma0 and solving for the implied
\* volatility of that price gives sigma0 back to within 0.01, for S = K = 150,
\* r = 0.05, T = 0.25, sigma0 = 0.25 and generally for S, K, T > 0 and sigma0
\* inside the solver's range.
C22_RoundTrip ==
    (ivpc = "done" /\ ivArgs.isCall
        /\ ivArgs.S > 0 /\ ivArgs.K > 0 /\ ivArgs.T > 0) =>
        \A sigma0 \in {FP \div 4, FP} :
            ivArgs.marketPrice =
                blackScholesPrice(ivArgs.S, ivArgs.K, ivArgs.r, ivArgs.T,
                                  sigma0, TRUE)
            => /\ ivRet - sigma0 <= FP \div 100
               /\ sigma0 - ivRet <= FP \div 100


\* C23: for every cache type, once the TTL given to Set (DefaultTTL when ttl
\* is 0) has elapsed since the last Set of a key, Get reports a miss, whatever
\* Set, Get, Delete and Clear calls came before.
C23_ExpiredMisses ==
    (cobs.got # <<>> /\ cobs.got[2]) =>
        /\ cobs.got[1] \in DOMAIN cobs.asked
        /\ cobs.got[3] <= cobs.asked[cobs.got[1]]

\* C26: for MaxSize >= 1 and any cache type, the memory map never holds more
\* than MaxSize entries.
C26_MemoryBounded == Cardinality(DOMAIN cache.memory) <= cache.MaxSize


C25_WaitCapped ==
    rpc \in {"waitErr", "waitStatus"} =>
        waitTime * JitterDen <= config.MaxBackoff * (JitterDen + config.JitterNum)

\* C25: a wait after a transport error, or after a retryable response with no
\* Retry-After header that parses, is at most MaxBackoff * (1 + Jitter); a
\* Retry-After header that parses as a duration in seconds is waited for as
\* it is, whatever MaxBackoff is.
C25_WaitCappedOrRetryAfter ==
    /\ rpc = "waitErr" =>
           waitTime * JitterDen
               <= config.MaxBackoff * (JitterDen + config.JitterNum)
    /\ rpc = "waitStatus" =>
           IF ParseDuration(resp.header \o <<"s">>).ok
           THEN waitTime = ParseDuration(resp.header \o <<"s">>).d
           ELSE waitTime * JitterDen
                    <= config.MaxBackoff * (JitterDen + config.JitterNum)

\* A wait after a response whose Retry-After header is an HTTP date, which
\* does not parse, with a backoff that has grown past MaxBackoff.
C25_Witness ==
    /\ rpc = "waitStatus"
    /\ resp.header = <<"W", "e", "d">>
    /\ nwaits >= 1
    /\ backoff > config.MaxBackoff
    /\ waitTime >= config.MaxBackoff


\* C27: over any sequence of Connect and Close calls on one Stream, read
\* errors included, each of the done, messages and errors channels is closed
\* at most once, so nothing panics.
C27_ClosedOnce ==
    /\ stream.done <= 1
    /\ stream.mcloses <= 1
    /\ stream.ecloses <= 1
    /\ ~stream.panic

\* C28: after Close on a connected Stream the read loop eventually ends and
\* closes the Messages and Errors channels, whether or not anyone reads
\* Errors(); it never waits forever on a channel send.
C28_CloseEndsLoop ==
    (stream.done = 1 /\ Len(stream.loops) = 1)
        ~> \/ Len(stream.loops) > 1
           \/ /\ Len(stream.loops) = 1
              /\ stream.loops[1].pc = "exited"
              /\ stream.mcloses = 1
              /\ stream.ecloses = 1

\* C29: IsConnected is true only while the read loop is running: false
\* before Connect, after Close, and once the read loop has exited because of
\* a read error.
C29_ConnectedMeansReading ==
    IsConnected => \E g \in DOMAIN stream.loops :
                       stream.loops[g].pc # "exited"


\* C30: under any interleaving of concurrent Get and Post calls on one
\* Client, calls that receive a 401 and reset the crumb included, every data
\* request sent after ensureAuthenticated returned without error carries a
\* non-empty crumb parameter.
C30_SentWithCrumb ==
    \A g \in Procs : cpc[g] = "await" => reqCrumb[g] # ""

====
